---- MODULE Spec2Model ----
(***************************************************************************)
(* A model of the afterfrag-api backend (FastAPI handlers over one SQLite  *)
(* database): topic bookkeeping on community membership changes, like      *)
(* counters of posts and comments, the relevance score and the comment     *)
(* tree builder.                                                           *)
(*                                                                         *)
(* Every handler opens its own connection (database.get_db).  The sqlite3  *)
(* module runs a SELECT outside any transaction and opens a transaction    *)
(* before the first INSERT/UPDATE/DELETE, which conn.commit() ends: the    *)
(* writes between two commits of one connection are one atomic step, the   *)
(* reads before them are separate steps.  PRAGMA foreign_keys is never     *)
(* set, so no ON DELETE CASCADE and no foreign key is enforced.            *)
(***************************************************************************)
EXTENDS Integers, Sequences, FiniteSets, TLC

VARIABLES
    communities,        \* table communities: sequence of rows, the index is the id
    community_members,  \* table community_members: [community id -> [user -> role]]
    user_topics,        \* table user_topics: [user -> set of topics]
    last,               \* the last handler call and its response
    ops,                \* the number of handler calls made
    probe,              \* a direct call of a bookkeeping helper, once made
    post_likes,         \* table post_likes: [post id -> [user -> 1, -1 or no row]]
    posts_like_count,   \* posts.like_count: [post id -> integer]
    comment_likes,      \* table comment_likes: [comment id -> [user -> 1, -1 or no row]]
    comments_like_count, \* comments.like_count: [comment id -> integer]
    requests,           \* like requests in flight: [connection -> request or idle]
    overlap,            \* whether requests of one user, or of two, have overlapped
    trip,               \* the three calls of the like round trip, and their order
    race,               \* a leave (or removal) and a join of one user, step by step
    score,              \* the arguments and the result of a relevance score call
    comments,           \* table comments: the rows by id
    tree,               \* the body of the last response, when it is a comment tree
    node,               \* what the last call returned, when it is get_single_comment
    updated_at,         \* column communities.updated_at, by community id
    engine,             \* the order in which the database yields rows that sort equal
    listing,            \* the last response of a browse endpoint
    paging,             \* a client paging through browse_communities, and what it got
    posts,              \* table posts: the rows by id
    community_post_tags, \* table community_post_tags: the rows by id
    post_post_tags,     \* table post_post_tags: pairs <<post id, tag id>>
    feed                \* the last response of the home feed

storeVars == <<communities, community_members, user_topics, probe>>
likeVars == <<post_likes, posts_like_count, comment_likes, comments_like_count>>
flightVars == <<requests, overlap>>
threadVars == <<comments, tree, node>>
browseVars == <<updated_at, engine, listing, paging>>
postVars == <<posts, community_post_tags, post_post_tags, feed>>
restVars == <<browseVars, postVars>>

(***************************************************************************)
(* Bounds and inputs                                                       *)
(***************************************************************************)
NumUsers == 2
MaxCommunities == 2
\* the number of handler calls of a run
MaxOps == 4

Users == 1..NumUsers

\* four of the fifty AVAILABLE_TOPICS
AVAILABLE_TOPICS == {"Gaming", "Sports", "Art & Design", "Music"}

\* a topic that is not in the vocabulary
InvalidTopic == "Knitting"

MinTopics == 3
MaxTopics == 50
MaxTags == 5

NoRole == "none"

Range(s) == {s[i] : i \in 1..Len(s)}

\* the tag lists a community is created with (the empty one is rejected)
TagLists ==
    { <<"Gaming", "Music">>, <<"Music">>, <<>> }

\* a fixed listing of the vocabulary, used to turn a set into a list
TopicOrder == <<"Gaming", "Sports", "Art & Design", "Music">>

RECURSIVE ListOf(_, _)
ListOf(S, i) ==
    IF i > Len(TopicOrder) THEN <<>>
    ELSE IF TopicOrder[i] \in S THEN <<TopicOrder[i]>> \o ListOf(S, i + 1)
         ELSE ListOf(S, i + 1)

\* the topic lists a client submits to onboarding
OnboardingLists ==
    { ListOf(S, 1) : S \in { T \in SUBSET AVAILABLE_TOPICS : Cardinality(T) >= 2 } }
        \cup { <<"Gaming", "Gaming", "Sports">>,
               <<"Gaming", "Sports", InvalidTopic>> }

CommunityIds == 1..MaxCommunities

NoCall == [op |-> "none"]

(***************************************************************************)
(* Request validation (schemas)                                            *)
(***************************************************************************)
\* schemas/onboarding.py OnboardingRequest.validate_topics
validate_topics(v) ==
    /\ Len(v) >= MinTopics
    /\ Len(v) <= MaxTopics
    /\ \A i \in 1..Len(v) : v[i] \in AVAILABLE_TOPICS
    /\ Len(v) = Cardinality(Range(v))

\* schemas/communities.py CommunityCreate.validate_tags
validate_tags(v) ==
    /\ v # <<>>
    /\ Len(v) <= MaxTags
    /\ \A i \in 1..Len(v) : v[i] \in AVAILABLE_TOPICS

(***************************************************************************)
(* Reads                                                                   *)
(***************************************************************************)
\* get_community_by_id: the row, or none
CommunityExists(comms, community_id) == community_id \in 1..Len(comms)

\* utils/route_helpers.py get_user_community_role
get_user_community_role(cm, community_id, user_id) ==
    IF community_id \in DOMAIN cm /\ user_id \in DOMAIN cm[community_id]
    THEN cm[community_id][user_id]
    ELSE NoRole

\* has_completed_onboarding: COUNT(*) >= 3
has_completed_onboarding(ut, user_id) == Cardinality(ut[user_id]) >= MinTopics

\* get_user_topics
get_user_topics(ut, user_id) == ut[user_id]

(***************************************************************************)
(* Topic bookkeeping helpers                                               *)
(***************************************************************************)
\* INSERT OR IGNORE of each topic of the list
RECURSIVE InsertOrIgnore(_, _)
InsertOrIgnore(prefs, topics) ==
    IF topics = <<>> THEN prefs
    ELSE InsertOrIgnore(prefs \cup {Head(topics)}, Tail(topics))

\* a variant with a plain INSERT: a topic that is stored already, or listed
\* twice, violates UNIQUE(user_id, topic) and nothing is committed
add_topics_plain_insert(ut, user_id, topics) ==
    IF \/ Range(topics) \cap ut[user_id] # {}
       \/ Cardinality(Range(topics)) # Len(topics)
    THEN ut
    ELSE [ut EXCEPT ![user_id] = InsertOrIgnore(ut[user_id], topics)]

add_topics_to_user(ut, user_id, topics) ==
    [ut EXCEPT ![user_id] = InsertOrIgnore(ut[user_id], topics)]

\* SELECT DISTINCT c.tags FROM communities c JOIN community_members cm ...
JoinedCommunityTags(comms, cm, user_id) ==
    { comms[c].tags : c \in { d \in 1..Len(comms) :
                               get_user_community_role(cm, d, user_id) # NoRole } }

\* all_community_topics: the union of the rows' tag lists
AllCommunityTopics(rows) == UNION { Range(tags) : tags \in rows }

\* the loop: DELETE each topic of the list that is not in all_community_topics
RECURSIVE DeleteUnused(_, _, _)
DeleteUnused(prefs, topics, all_community_topics) ==
    IF topics = <<>> THEN prefs
    ELSE DeleteUnused(
            IF Head(topics) \notin all_community_topics
            THEN prefs \ {Head(topics)} ELSE prefs,
            Tail(topics), all_community_topics)

\* a variant whose DELETE leaves out "user_id = ?"
remove_topics_from_every_user(ut, comms, cm, user_id, topics) ==
    [u \in DOMAIN ut |->
        DeleteUnused(ut[u], topics,
                     AllCommunityTopics(JoinedCommunityTags(comms, cm, user_id)))]

\* a variant that deletes every listed topic, whatever the memberships
remove_topics_unconditionally(ut, comms, cm, user_id, topics) ==
    [ut EXCEPT ![user_id] = DeleteUnused(ut[user_id], topics, {})]

remove_topics_from_user(ut, comms, cm, user_id, topics) ==
    [ut EXCEPT ![user_id] =
        DeleteUnused(ut[user_id], topics,
                     AllCommunityTopics(JoinedCommunityTags(comms, cm, user_id)))]

(***************************************************************************)
(* Handlers, each run to completion                                        *)
(***************************************************************************)
\* an error response: the call made and the status reported
Fail(op, status) ==
    [op |-> op, user |-> 0, community |-> 0, target |-> 0, status |-> status,
     before |-> {}]

\* a response: the call made, the status and the affected user's topics before it
Call(op, user, community, target, status, before) ==
    [op |-> op, user |-> user, community |-> community, target |-> target,
     status |-> status, before |-> before]

\* the response of an onboarding call, which repeats the submitted topics
Submitted(call, topics) == [selected_topics |-> topics] @@ call

\* a variant that inserts the submitted topics without the DELETE before
complete_onboarding_without_delete(current_user_id, topics) ==
    /\ IF ~validate_topics(topics)
       THEN /\ last' = Fail("complete_onboarding", 422)
            /\ UNCHANGED user_topics
       ELSE IF has_completed_onboarding(user_topics, current_user_id)
       THEN /\ last' = Fail("complete_onboarding", 400)
            /\ UNCHANGED user_topics
       ELSE /\ user_topics' = [user_topics EXCEPT ![current_user_id] =
                                    @ \cup Range(topics)]
            /\ last' = Submitted(Call("complete_onboarding", current_user_id, 0, 0,
                                      200, user_topics[current_user_id]), topics)
    /\ UNCHANGED <<communities, community_members>>

\* routes/onboarding.py complete_onboarding
complete_onboarding(current_user_id, topics) ==
    /\ IF ~validate_topics(topics)
       THEN /\ last' = Fail("complete_onboarding", 422)
            /\ UNCHANGED user_topics
       ELSE IF has_completed_onboarding(user_topics, current_user_id)
       THEN /\ last' = Fail("complete_onboarding", 400)
            /\ UNCHANGED user_topics
       ELSE /\ user_topics' = [user_topics EXCEPT ![current_user_id] = Range(topics)]
            /\ last' = Submitted(Call("complete_onboarding", current_user_id, 0, 0,
                                      200, user_topics[current_user_id]), topics)
    /\ UNCHANGED <<communities, community_members>>

\* routes/onboarding.py update_topics
update_topics(current_user_id, topics) ==
    /\ IF ~validate_topics(topics)
       THEN /\ last' = Fail("update_topics", 422)
            /\ UNCHANGED user_topics
       ELSE IF ~has_completed_onboarding(user_topics, current_user_id)
       THEN /\ last' = Fail("update_topics", 400)
            /\ UNCHANGED user_topics
       ELSE /\ user_topics' = [user_topics EXCEPT ![current_user_id] = Range(topics)]
            /\ last' = Submitted(Call("update_topics", current_user_id, 0, 0, 200,
                                      user_topics[current_user_id]), topics)
    /\ UNCHANGED <<communities, community_members>>

\* routes/communities.py create_community
create_community(current_user_id, name, tags) ==
    /\ IF ~validate_tags(tags)
       THEN /\ last' = Fail("create_community", 422)
            /\ UNCHANGED <<communities, community_members>>
       ELSE IF \E c \in 1..Len(communities) : communities[c].name = name
       THEN /\ last' = Fail("create_community", 400)
            /\ UNCHANGED <<communities, community_members>>
       ELSE /\ communities' = Append(communities,
                    [name |-> name, tags |-> tags, owner_id |-> current_user_id])
            /\ community_members' =
                    [c \in 1..(Len(communities) + 1) |->
                        IF c <= Len(communities) THEN community_members[c]
                        ELSE [u \in Users |->
                                IF u = current_user_id THEN "owner" ELSE NoRole]]
            /\ last' = Call("create_community", current_user_id,
                            Len(communities) + 1, 0, 200,
                            user_topics[current_user_id])
    /\ UNCHANGED user_topics

\* the topics of `topics` that are not in `have`, in the order of the list
RECURSIVE NotIn(_, _)
NotIn(topics, have) ==
    IF topics = <<>> THEN <<>>
    ELSE IF Head(topics) \notin have
         THEN <<Head(topics)>> \o NotIn(Tail(topics), have)
         ELSE NotIn(Tail(topics), have)

\* the response of join_community, whose message names newly_added_topics
Named(call, topics) == [named |-> topics] @@ call

\* a variant without the check "Already a member of this community"
join_community_unchecked(community_id, current_user_id) ==
    /\ IF ~CommunityExists(communities, community_id)
       THEN /\ last' = Fail("join_community", 404)
            /\ UNCHANGED <<community_members, user_topics>>
       ELSE /\ community_members' =
                    [community_members EXCEPT
                        ![community_id][current_user_id] = "member"]
            /\ user_topics' = add_topics_to_user(user_topics, current_user_id,
                                                 communities[community_id].tags)
            /\ last' = Named(Call("join_community", current_user_id,
                                  community_id, 0, 200,
                                  user_topics[current_user_id]),
                             NotIn(communities[community_id].tags,
                                   get_user_topics(user_topics', current_user_id)))
    /\ UNCHANGED communities

\* routes/communities.py join_community
join_community(community_id, current_user_id) ==
    /\ IF ~CommunityExists(communities, community_id)
       THEN /\ last' = Fail("join_community", 404)
            /\ UNCHANGED <<community_members, user_topics>>
       ELSE IF get_user_community_role(community_members, community_id,
                                       current_user_id) # NoRole
       THEN /\ last' = Fail("join_community", 400)
            /\ UNCHANGED <<community_members, user_topics>>
       ELSE /\ community_members' =
                    [community_members EXCEPT
                        ![community_id][current_user_id] = "member"]
            /\ user_topics' = add_topics_to_user(user_topics, current_user_id,
                                                 communities[community_id].tags)
            /\ last' = Named(Call("join_community", current_user_id,
                                  community_id, 0, 200,
                                  user_topics[current_user_id]),
                             NotIn(communities[community_id].tags,
                                   get_user_topics(user_topics', current_user_id)))
    /\ UNCHANGED communities

\* a variant without the check "Owner cannot leave community"
leave_community_owner_too(community_id, current_user_id) ==
    /\ IF ~CommunityExists(communities, community_id)
       THEN /\ last' = Fail("leave_community", 404)
            /\ UNCHANGED <<community_members, user_topics>>
       ELSE IF get_user_community_role(community_members, community_id,
                                       current_user_id) = NoRole
       THEN /\ last' = Fail("leave_community", 400)
            /\ UNCHANGED <<community_members, user_topics>>
       ELSE /\ community_members' =
                    [community_members EXCEPT
                        ![community_id][current_user_id] = NoRole]
            /\ user_topics' =
                    remove_topics_from_user(user_topics, communities,
                        community_members', current_user_id,
                        communities[community_id].tags)
            /\ last' = Call("leave_community", current_user_id, community_id, 0,
                            200, user_topics[current_user_id])
    /\ UNCHANGED communities

\* routes/communities.py leave_community
leave_community(community_id, current_user_id) ==
    /\ IF ~CommunityExists(communities, community_id)
       THEN /\ last' = Fail("leave_community", 404)
            /\ UNCHANGED <<community_members, user_topics>>
       ELSE IF get_user_community_role(community_members, community_id,
                                       current_user_id) \in {NoRole, "owner"}
       THEN /\ last' = Fail("leave_community", 400)
            /\ UNCHANGED <<community_members, user_topics>>
       ELSE /\ community_members' =
                    [community_members EXCEPT
                        ![community_id][current_user_id] = NoRole]
            /\ user_topics' =
                    remove_topics_from_user(user_topics, communities,
                        community_members', current_user_id,
                        communities[community_id].tags)
            /\ last' = Call("leave_community", current_user_id, community_id, 0,
                            200, user_topics[current_user_id])
    /\ UNCHANGED communities

\* routes/communities.py update_community, for a body that names tags
update_community(community_id, tags, current_user_id) ==
    /\ IF ~validate_tags(tags)
       THEN /\ last' = Fail("update_community", 422)
            /\ UNCHANGED communities
       ELSE IF ~CommunityExists(communities, community_id)
       THEN /\ last' = Fail("update_community", 404)
            /\ UNCHANGED communities
       ELSE IF get_user_community_role(community_members, community_id,
                                       current_user_id) # "owner"
       THEN /\ last' = Fail("update_community", 403)
            /\ UNCHANGED communities
       ELSE /\ communities' = [communities EXCEPT ![community_id].tags = tags]
            /\ last' = Call("update_community", current_user_id, community_id,
                            0, 200, user_topics[current_user_id])
    /\ UNCHANGED <<community_members, user_topics>>

\* schemas/communities.py CommunityMemberUpdate.validate_role
validate_role(v) == v \in {"moderator", "member"}

\* the roles a client sends
RoleInputs == {"moderator", "member", "owner"}

\* a variant without the check "Cannot update your own role"
update_member_role_self_too(community_id, user_id, role, current_user_id) ==
    /\ LET status ==
            IF ~validate_role(role) THEN 422
            ELSE IF ~CommunityExists(communities, community_id) THEN 404
            ELSE IF get_user_community_role(community_members, community_id,
                                            current_user_id) # "owner" THEN 403
            ELSE IF get_user_community_role(community_members, community_id,
                                            user_id) = NoRole THEN 404
            ELSE 200
       IN /\ last' = IF status = 200
                    THEN Call("update_member_role", current_user_id,
                              community_id, user_id, 200, user_topics[user_id])
                    ELSE Fail("update_member_role", status)
          /\ community_members' =
                IF status = 200
                THEN [community_members EXCEPT ![community_id][user_id] = role]
                ELSE community_members
    /\ UNCHANGED <<communities, user_topics>>

\* routes/communities.py update_member_role
update_member_role(community_id, user_id, role, current_user_id) ==
    /\ LET status ==
            IF ~validate_role(role) THEN 422
            ELSE IF ~CommunityExists(communities, community_id) THEN 404
            ELSE IF get_user_community_role(community_members, community_id,
                                            current_user_id) # "owner" THEN 403
            ELSE IF current_user_id = user_id THEN 400
            ELSE IF get_user_community_role(community_members, community_id,
                                            user_id) = NoRole THEN 404
            ELSE 200
       IN /\ last' = IF status = 200
                    THEN Call("update_member_role", current_user_id,
                              community_id, user_id, 200, user_topics[user_id])
                    ELSE Fail("update_member_role", status)
          /\ community_members' =
                IF status = 200
                THEN [community_members EXCEPT ![community_id][user_id] = role]
                ELSE community_members
    /\ UNCHANGED <<communities, user_topics>>

\* the checks of remove_member, in the order of the code
RemoveMemberStatus(comms, cm, community_id, user_id, current_user_id) ==
    IF ~CommunityExists(comms, community_id) THEN 404
    ELSE IF get_user_community_role(cm, community_id, current_user_id)
                \notin {"owner", "moderator"} THEN 403
    ELSE IF current_user_id = user_id THEN 400
    ELSE IF get_user_community_role(cm, community_id, user_id) = NoRole THEN 404
    ELSE IF get_user_community_role(cm, community_id, user_id) = "owner" THEN 400
    ELSE IF /\ get_user_community_role(cm, community_id, current_user_id) = "moderator"
            /\ get_user_community_role(cm, community_id, user_id) = "moderator"
         THEN 403
    ELSE 200

\* routes/communities.py remove_member
remove_member(community_id, user_id, current_user_id) ==
    /\ LET status == RemoveMemberStatus(communities, community_members,
                                        community_id, user_id, current_user_id)
       IN /\ last' = IF status = 200
                    THEN Call("remove_member", current_user_id, community_id,
                              user_id, 200, user_topics[user_id])
                    ELSE Fail("remove_member", status)
          /\ IF status = 200
             THEN /\ community_members' =
                        [community_members EXCEPT ![community_id][user_id] = NoRole]
                  /\ user_topics' =
                        remove_topics_from_user(user_topics, communities,
                            community_members', user_id,
                            communities[community_id].tags)
             ELSE UNCHANGED <<community_members, user_topics>>
    /\ UNCHANGED communities

Names == {"alpha", "beta"}

StoreInit ==
    /\ communities = <<>>
    /\ community_members = <<>>
    /\ user_topics = [u \in Users |-> {}]
    /\ last = NoCall
    /\ ops = 0
    /\ probe = <<>>

\* a handler call is one of at most `bound` calls of a run
Tick(bound) ==
    /\ probe = <<>>
    /\ ops < bound
    /\ ops' = ops + 1
    /\ UNCHANGED <<probe, likeVars, flightVars, trip, race, score, threadVars, restVars>>

StoreNext(bound) ==
    \/ \E u \in Users, t \in OnboardingLists :
            Tick(bound) /\ complete_onboarding(u, t)
    \/ \E u \in Users, t \in OnboardingLists :
            Tick(bound) /\ update_topics(u, t)
    \/ \E u \in Users, n \in Names, t \in TagLists :
            /\ Tick(bound)
            /\ Len(communities) < MaxCommunities
            /\ create_community(u, n, t)
    \/ \E c \in CommunityIds, u \in Users :
            Tick(bound) /\ join_community(c, u)
    \/ \E c \in CommunityIds, u \in Users :
            Tick(bound) /\ leave_community(c, u)
    \/ \E c \in CommunityIds, u \in Users, v \in Users,
           r \in RoleInputs :
            Tick(bound) /\ update_member_role(c, v, r, u)
    \/ \E c \in CommunityIds, u \in Users, v \in Users :
            Tick(bound) /\ remove_member(c, v, u)

(***************************************************************************)
(* Direct calls of the bookkeeping helpers, on a store the handlers built  *)
(***************************************************************************)
MaxProbeOps == 3

\* the topic lists a helper is called with
ProbeLists ==
    { <<>>, <<"Gaming", "Music">>, <<"Gaming", "Sports">>,
      <<"Sports", "Art & Design", "Sports">> }

NoProbe == <<>>

CallRemoveTopics(user_id, topics) ==
    /\ probe = NoProbe
    /\ probe' = [fn |-> "remove_topics_from_user", user_id |-> user_id,
                 topics |-> topics, before |-> user_topics]
    /\ user_topics' = remove_topics_from_user(user_topics, communities,
                            community_members, user_id, topics)
    /\ UNCHANGED <<communities, community_members, last, ops>>
    /\ UNCHANGED <<likeVars, flightVars, trip, race, score, threadVars, restVars>>

BookkeeperNext ==
    \/ StoreNext(MaxProbeOps)
    \/ \E u \in Users, t \in ProbeLists : CallRemoveTopics(u, t)

(***************************************************************************)
(* Repeated and reordered calls of the two helpers                         *)
(***************************************************************************)
MaxHelperOps == 2
MaxRepeats == 2

\* add_topics_to_user(user_id, topics), called again with the same arguments
CallAddTopics(user_id, topics) ==
    /\ \/ probe = NoProbe
       \/ /\ probe # NoProbe
          /\ probe.fn = "add_topics_to_user"
          /\ probe.user_id = user_id /\ probe.topics = topics
          /\ probe.calls < MaxRepeats
    /\ user_topics' = add_topics_to_user(user_topics, user_id, topics)
    /\ probe' = IF probe = NoProbe
                THEN [fn |-> "add_topics_to_user", user_id |-> user_id,
                      topics |-> topics, before |-> user_topics, calls |-> 1,
                      once |-> user_topics']
                ELSE [probe EXCEPT !.calls = @ + 1]
    /\ UNCHANGED <<communities, community_members, last, ops>>
    /\ UNCHANGED <<likeVars, flightVars, trip, race, score, threadVars, restVars>>

\* add_topics_to_user(user_id, added) then remove_topics_from_user(user_id,
\* removed); `swapped` is what the two calls leave in the other order
CallAddThenRemove(user_id, added, removed) ==
    /\ probe = NoProbe
    /\ user_topics' =
            remove_topics_from_user(
                add_topics_to_user(user_topics, user_id, added),
                communities, community_members, user_id, removed)
    /\ probe' = [fn |-> "add_then_remove", user_id |-> user_id,
                 added |-> added, removed |-> removed, before |-> user_topics,
                 swapped |->
                    add_topics_to_user(
                        remove_topics_from_user(user_topics, communities,
                            community_members, user_id, removed),
                        user_id, added)]
    /\ UNCHANGED <<communities, community_members, last, ops>>
    /\ UNCHANGED <<likeVars, flightVars, trip, race, score, threadVars, restVars>>

HelperNext ==
    \/ StoreNext(MaxHelperOps)
    \/ \E u \in Users, t \in ProbeLists : CallAddTopics(u, t)
    \/ \E u \in Users, added \in ProbeLists, removed \in ProbeLists :
            CallAddThenRemove(u, added, removed)

(***************************************************************************)
(* Likes of posts and comments                                             *)
(***************************************************************************)
\* the posts and the comments that exist, and an id that names neither
PostIds == {1}
CommentIds == {1}
MissingId == 2

NoRow == 0
LikeValues == {1, -1}

\* SELECT value FROM post_likes / comment_likes WHERE ... AND user_id = ?
LikeRow(likes, id, user_id) ==
    IF id \in DOMAIN likes THEN likes[id][user_id] ELSE NoRow

\* an adjustment that forgets the value of the row it replaces
LikeWritesNoDelta(likes, counts, id, user_id, value, row) ==
    [likes |-> [likes EXCEPT ![id][user_id] = value],
     counts |-> [counts EXCEPT ![id] = @ + value],
     status |-> 200]

\* like_post / like_comment after the reads, `row` being the value read: the
\* statements of the one transaction that conn.commit() ends.  An UPDATE of a
\* row that is gone changes nothing; an INSERT of a row that is there breaks
\* UNIQUE(post_id, user_id), and the connection closes without a commit.
LikeWrites(likes, counts, id, user_id, value, row) ==
    IF row # NoRow
    THEN [likes |-> IF likes[id][user_id] # NoRow
                    THEN [likes EXCEPT ![id][user_id] = value] ELSE likes,
          counts |-> [counts EXCEPT ![id] = @ + (value - row)],
          status |-> 200]
    ELSE IF likes[id][user_id] # NoRow
         THEN [likes |-> likes, counts |-> counts, status |-> 500]
         ELSE [likes |-> [likes EXCEPT ![id][user_id] = value],
               counts |-> [counts EXCEPT ![id] = @ + value],
               status |-> 200]

\* a removal that adds the removed value instead of subtracting it
UnlikeWritesAdding(likes, counts, id, user_id, row) ==
    [likes |-> [likes EXCEPT ![id][user_id] = NoRow],
     counts |-> [counts EXCEPT ![id] = @ + row],
     status |-> 200]

\* unlike_post / unlike_comment after the read of a row with value `row`
UnlikeWrites(likes, counts, id, user_id, row) ==
    [likes |-> [likes EXCEPT ![id][user_id] = NoRow],
     counts |-> [counts EXCEPT ![id] = @ - row],
     status |-> 200]

LikeResponse(op, user_id, id, status) ==
    IF status = 200 THEN Call(op, user_id, 0, id, 200, {}) ELSE Fail(op, status)

\* routes/posts.py like_post, run to completion
like_post(post_id, value, current_user_id) ==
    IF value \notin LikeValues
    THEN /\ last' = Fail("like_post", 400)
         /\ UNCHANGED <<post_likes, posts_like_count>>
    ELSE IF post_id \notin PostIds
    THEN /\ last' = Fail("like_post", 404)
         /\ UNCHANGED <<post_likes, posts_like_count>>
    ELSE LET w == LikeWrites(post_likes, posts_like_count, post_id,
                             current_user_id, value,
                             LikeRow(post_likes, post_id, current_user_id))
         IN /\ post_likes' = w.likes
            /\ posts_like_count' = w.counts
            /\ last' = LikeResponse("like_post", current_user_id, post_id, w.status)

\* routes/posts.py unlike_post, run to completion
unlike_post(post_id, current_user_id) ==
    IF LikeRow(post_likes, post_id, current_user_id) = NoRow
    THEN /\ last' = Call("unlike_post", current_user_id, 0, post_id, 200, {})
         /\ UNCHANGED <<post_likes, posts_like_count>>
    ELSE LET w == UnlikeWrites(post_likes, posts_like_count, post_id,
                               current_user_id,
                               LikeRow(post_likes, post_id, current_user_id))
         IN /\ post_likes' = w.likes
            /\ posts_like_count' = w.counts
            /\ last' = Call("unlike_post", current_user_id, 0, post_id, 200, {})

\* routes/comments.py like_comment, run to completion
like_comment(comment_id, value, current_user_id) ==
    IF value \notin LikeValues
    THEN /\ last' = Fail("like_comment", 400)
         /\ UNCHANGED <<comment_likes, comments_like_count>>
    ELSE IF comment_id \notin CommentIds
    THEN /\ last' = Fail("like_comment", 404)
         /\ UNCHANGED <<comment_likes, comments_like_count>>
    ELSE LET w == LikeWrites(comment_likes, comments_like_count, comment_id,
                             current_user_id, value,
                             LikeRow(comment_likes, comment_id, current_user_id))
         IN /\ comment_likes' = w.likes
            /\ comments_like_count' = w.counts
            /\ last' = LikeResponse("like_comment", current_user_id, comment_id,
                                    w.status)

\* routes/comments.py unlike_comment, run to completion
unlike_comment(comment_id, current_user_id) ==
    IF LikeRow(comment_likes, comment_id, current_user_id) = NoRow
    THEN /\ last' = Call("unlike_comment", current_user_id, 0, comment_id, 200, {})
         /\ UNCHANGED <<comment_likes, comments_like_count>>
    ELSE LET w == UnlikeWrites(comment_likes, comments_like_count, comment_id,
                               current_user_id,
                               LikeRow(comment_likes, comment_id, current_user_id))
         IN /\ comment_likes' = w.likes
            /\ comments_like_count' = w.counts
            /\ last' = Call("unlike_comment", current_user_id, 0, comment_id, 200, {})

\* the values a client sends: like, dislike, and one that is neither
RequestValues == {1, -1, 0}

LikesInit ==
    /\ post_likes = [p \in PostIds |-> [u \in Users |-> NoRow]]
    /\ posts_like_count = [p \in PostIds |-> 0]
    /\ comment_likes = [c \in CommentIds |-> [u \in Users |-> NoRow]]
    /\ comments_like_count = [c \in CommentIds |-> 0]

LikesNext ==
    \/ \E p \in PostIds \cup {MissingId}, v \in RequestValues, u \in Users :
            /\ like_post(p, v, u)
            /\ UNCHANGED <<comment_likes, comments_like_count>>
            /\ UNCHANGED <<storeVars, ops, flightVars, trip, race, score, threadVars, restVars>>
    \/ \E p \in PostIds \cup {MissingId}, u \in Users :
            /\ unlike_post(p, u)
            /\ UNCHANGED <<comment_likes, comments_like_count>>
            /\ UNCHANGED <<storeVars, ops, flightVars, trip, race, score, threadVars, restVars>>
    \/ \E c \in CommentIds \cup {MissingId}, v \in RequestValues, u \in Users :
            /\ like_comment(c, v, u)
            /\ UNCHANGED <<post_likes, posts_like_count>>
            /\ UNCHANGED <<storeVars, ops, flightVars, trip, race, score, threadVars, restVars>>
    \/ \E c \in CommentIds \cup {MissingId}, u \in Users :
            /\ unlike_comment(c, u)
            /\ UNCHANGED <<post_likes, posts_like_count>>
            /\ UNCHANGED <<storeVars, ops, flightVars, trip, race, score, threadVars, restVars>>

(***************************************************************************)
(* Like requests that overlap.  A request reads (the SELECTs run outside   *)
(* any transaction), and later writes and commits in one step; requests    *)
(* of other connections may run in between.                                *)
(***************************************************************************)
NumConns == 2
MaxLikeCalls == 3

Conns == 1..NumConns

Idle == [op |-> "idle"]

\* the posts and comments a request may name
Contents ==
    { [kind |-> "post", id |-> p] : p \in PostIds \cup {MissingId} }
        \cup { [kind |-> "comment", id |-> c] : c \in CommentIds \cup {MissingId} }

ContentExists(content) ==
    IF content.kind = "post" THEN content.id \in PostIds
    ELSE content.id \in CommentIds

LikesOf(kind) == IF kind = "post" THEN post_likes ELSE comment_likes
CountsOf(kind) == IF kind = "post" THEN posts_like_count ELSE comments_like_count

InFlight(conn) == requests[conn] # Idle

\* another request on the same post or comment is in flight
Overlaps(conn, content, user_id, same) ==
    \E d \in Conns \ {conn} :
        /\ InFlight(d)
        /\ requests[d].kind = content.kind
        /\ requests[d].id = content.id
        /\ (requests[d].user = user_id) = same

Enter(conn, op, content, value, user_id) ==
    /\ requests' = [requests EXCEPT ![conn] =
            [op |-> op, kind |-> content.kind, id |-> content.id,
             user |-> user_id, value |-> value,
             row |-> LikeRow(LikesOf(content.kind), content.id, user_id)]]
    /\ overlap' = [same |-> overlap.same \/ Overlaps(conn, content, user_id, TRUE),
                   different |-> overlap.different
                                    \/ Overlaps(conn, content, user_id, FALSE)]

\* like_post / like_comment up to the read of the caller's like row
BeginLike(conn, content, value, current_user_id) ==
    /\ ~InFlight(conn)
    /\ ops < MaxLikeCalls
    /\ ops' = ops + 1
    /\ IF value \notin LikeValues
       THEN /\ last' = Fail("like_" \o content.kind, 400)
            /\ UNCHANGED flightVars
       ELSE IF ~ContentExists(content)
       THEN /\ last' = Fail("like_" \o content.kind, 404)
            /\ UNCHANGED flightVars
       ELSE /\ Enter(conn, "like", content, value, current_user_id)
            /\ UNCHANGED last
    /\ UNCHANGED <<storeVars, likeVars, trip, race, score, threadVars, restVars>>

\* unlike_post / unlike_comment up to the read of the caller's like row
BeginUnlike(conn, content, current_user_id) ==
    /\ ~InFlight(conn)
    /\ ops < MaxLikeCalls
    /\ ops' = ops + 1
    /\ IF LikeRow(LikesOf(content.kind), content.id, current_user_id) = NoRow
       THEN /\ last' = Call("unlike_" \o content.kind, current_user_id, 0,
                            content.id, 200, {})
            /\ UNCHANGED flightVars
       ELSE /\ Enter(conn, "unlike", content, 0, current_user_id)
            /\ UNCHANGED last
    /\ UNCHANGED <<storeVars, likeVars, trip, race, score, threadVars, restVars>>

\* the rest of the request: its writes and the commit
Commit(conn) ==
    /\ InFlight(conn)
    /\ LET r == requests[conn]
           w == IF r.op = "like"
                THEN LikeWrites(LikesOf(r.kind), CountsOf(r.kind), r.id, r.user,
                                r.value, r.row)
                ELSE UnlikeWrites(LikesOf(r.kind), CountsOf(r.kind), r.id,
                                  r.user, r.row)
       IN /\ IF r.kind = "post"
             THEN /\ post_likes' = w.likes
                  /\ posts_like_count' = w.counts
                  /\ UNCHANGED <<comment_likes, comments_like_count>>
             ELSE /\ comment_likes' = w.likes
                  /\ comments_like_count' = w.counts
                  /\ UNCHANGED <<post_likes, posts_like_count>>
          /\ last' = LikeResponse(r.op \o "_" \o r.kind, r.user, r.id, w.status)
    /\ requests' = [requests EXCEPT ![conn] = Idle]
    /\ UNCHANGED <<storeVars, ops, overlap, trip, race, score, threadVars, restVars>>

FlightInit ==
    /\ requests = [c \in Conns |-> Idle]
    /\ overlap = [same |-> FALSE, different |-> FALSE]

FlightNext ==
    \/ \E c \in Conns, x \in Contents, v \in RequestValues, u \in Users :
            BeginLike(c, x, v, u)
    \/ \E c \in Conns, x \in Contents, u \in Users : BeginUnlike(c, x, u)
    \/ \E c \in Conns : Commit(c)

(***************************************************************************)
(* The like round trip: one user's like(+1), unlike and like(-1) of one    *)
(* post or comment that carries no like, in any order and overlap          *)
(***************************************************************************)
TripCalls ==
    << [op |-> "like", value |-> 1],
       [op |-> "unlike", value |-> 0],
       [op |-> "like", value |-> -1] >>

\* the user who calls and the post or comment called on
TripTarget == [user |-> 1, id |-> 1]

NoTrip == [kind |-> "none"]

TripStart(kind) ==
    [kind |-> kind,
     pc |-> [i \in 1..Len(TripCalls) |-> "todo"],
     row |-> [i \in 1..Len(TripCalls) |-> NoRow],
     order |-> <<>>,
     overlapped |-> FALSE]

\* call i up to the read of the like row; an unlike that finds no row returns
TripBegin(i) ==
    /\ trip # NoTrip
    /\ trip.pc[i] = "todo"
    /\ LET row == LikeRow(LikesOf(trip.kind), TripTarget.id, TripTarget.user)
           returns == TripCalls[i].op = "unlike" /\ row = NoRow
       IN trip' = [trip EXCEPT
                    !.pc[i] = IF returns THEN "done" ELSE "read",
                    !.row[i] = row,
                    !.order = Append(@, i),
                    !.overlapped = @ \/ \E j \in 1..Len(TripCalls) :
                                            trip.pc[j] = "read"]
    /\ UNCHANGED <<storeVars, last, ops, likeVars, flightVars, race, score, threadVars, restVars>>

\* call i from its writes to the commit
TripCommit(i) ==
    /\ trip # NoTrip
    /\ trip.pc[i] = "read"
    /\ LET w == IF TripCalls[i].op = "like"
                THEN LikeWrites(LikesOf(trip.kind), CountsOf(trip.kind), TripTarget.id,
                                TripTarget.user, TripCalls[i].value, trip.row[i])
                ELSE UnlikeWrites(LikesOf(trip.kind), CountsOf(trip.kind),
                                  TripTarget.id, TripTarget.user, trip.row[i])
       IN /\ IF trip.kind = "post"
             THEN /\ post_likes' = w.likes
                  /\ posts_like_count' = w.counts
                  /\ UNCHANGED <<comment_likes, comments_like_count>>
             ELSE /\ comment_likes' = w.likes
                  /\ comments_like_count' = w.counts
                  /\ UNCHANGED <<post_likes, posts_like_count>>
          /\ last' = LikeResponse(TripCalls[i].op \o "_" \o trip.kind, TripTarget.user,
                                  TripTarget.id, w.status)
    /\ trip' = [trip EXCEPT !.pc[i] = "done"]
    /\ UNCHANGED <<storeVars, ops, flightVars, race, score, threadVars, restVars>>

TripNext ==
    \/ \E i \in 1..Len(TripCalls) : TripBegin(i)
    \/ \E i \in 1..Len(TripCalls) : TripCommit(i)

(***************************************************************************)
(* A member's leave_community (or an owner's remove_member of that member) *)
(* of one community while the member's join_community of another runs.     *)
(* Each step is one read, or the writes up to one conn.commit().           *)
(***************************************************************************)
\* the member who leaves and joins, the owner of both communities, and the
\* communities left and joined
Racer == [member |-> 1, owner |-> 2, left |-> 1, joined |-> 2]

NoRace == [on |-> FALSE]

\* both requests received, neither begun
RaceStart ==
    [on |-> TRUE,
     leave |-> [pc |-> "start", op |-> "none", tags |-> <<>>, used |-> {},
                named |-> <<>>],
     join |-> [pc |-> "start", tags |-> <<>>, named |-> <<>>]]

\* the store after the owner created both communities and the member,
\* onboarded or not, joined the first
RaceCommunities(tags1, tags2) ==
    << [name |-> "alpha", tags |-> tags1, owner_id |-> Racer.owner],
       [name |-> "beta", tags |-> tags2, owner_id |-> Racer.owner] >>

RaceMembers ==
    << [u \in Users |-> IF u = Racer.owner THEN "owner"
                        ELSE IF u = Racer.member THEN "member" ELSE NoRole],
       [u \in Users |-> IF u = Racer.owner THEN "owner" ELSE NoRole] >>

RaceTopics(tags1, onboarding) ==
    add_topics_to_user(
        [u \in Users |-> IF u = Racer.member THEN onboarding ELSE {}],
        Racer.member, tags1)

\* leave_community: get_community_by_id and the role checks
LeaveRead ==
    /\ race.on /\ race.leave.pc = "start"
    /\ LET role == get_user_community_role(community_members, Racer.left, Racer.member)
       IN IF role \in {NoRole, "owner"}
          THEN /\ race' = [race EXCEPT !.leave.pc = "done", !.leave.op = "leave_community"]
               /\ last' = Fail("leave_community", 400)
          ELSE /\ race' = [race EXCEPT !.leave.pc = "checked",
                                       !.leave.op = "leave_community",
                                       !.leave.tags = communities[Racer.left].tags]
               /\ UNCHANGED last
    /\ UNCHANGED <<storeVars, ops, likeVars, flightVars, trip, score,
                   threadVars, restVars>>

\* remove_member: get_community_by_id and the role checks
RemoveRead ==
    /\ race.on /\ race.leave.pc = "start"
    /\ LET status == RemoveMemberStatus(communities, community_members, Racer.left,
                                        Racer.member, Racer.owner)
       IN IF status # 200
          THEN /\ race' = [race EXCEPT !.leave.pc = "done", !.leave.op = "remove_member"]
               /\ last' = Fail("remove_member", status)
          ELSE /\ race' = [race EXCEPT !.leave.pc = "checked",
                                       !.leave.op = "remove_member",
                                       !.leave.tags = communities[Racer.left].tags]
               /\ UNCHANGED last
    /\ UNCHANGED <<storeVars, ops, likeVars, flightVars, trip, score,
                   threadVars, restVars>>

\* DELETE FROM community_members ...; commit
LeaveDelete ==
    /\ race.on /\ race.leave.pc = "checked"
    /\ community_members' =
            [community_members EXCEPT ![Racer.left][Racer.member] = NoRole]
    /\ race' = [race EXCEPT !.leave.pc = "left"]
    /\ UNCHANGED <<communities, user_topics, probe, last, ops, likeVars,
                   flightVars, trip, score,
                   threadVars, restVars>>

\* remove_topics_from_user: the SELECT of the tags of the joined communities
LeaveSelectTags ==
    /\ race.on /\ race.leave.pc = "left"
    /\ race' = [race EXCEPT
                 !.leave.pc = "selected",
                 !.leave.used = AllCommunityTopics(
                     JoinedCommunityTags(communities, community_members, Racer.member))]
    /\ UNCHANGED <<storeVars, last, ops, likeVars, flightVars, trip, score,
                   threadVars, restVars>>

\* remove_topics_from_user: the DELETEs and the commit; remove_member returns
LeaveDeleteTopics ==
    /\ race.on /\ race.leave.pc = "selected"
    /\ user_topics' = [user_topics EXCEPT ![Racer.member] =
                            DeleteUnused(@, race.leave.tags, race.leave.used)]
    /\ IF race.leave.op = "remove_member"
       THEN /\ race' = [race EXCEPT !.leave.pc = "done"]
            /\ last' = Call("remove_member", Racer.owner, Racer.left,
                            Racer.member, 200, {})
       ELSE /\ race' = [race EXCEPT !.leave.pc = "removed"]
            /\ UNCHANGED last
    /\ UNCHANGED <<communities, community_members, probe, ops, likeVars,
                   flightVars, trip, score,
                   threadVars, restVars>>

\* leave_community: get_user_topics and the message naming the removed topics
LeaveRespond ==
    /\ race.on /\ race.leave.pc = "removed"
    /\ race' = [race EXCEPT
                 !.leave.pc = "done",
                 !.leave.named = NotIn(race.leave.tags,
                                       get_user_topics(user_topics, Racer.member))]
    /\ last' = Call("leave_community", Racer.member, Racer.left, 0, 200, {})
    /\ UNCHANGED <<storeVars, ops, likeVars, flightVars, trip, score,
                   threadVars, restVars>>

\* join_community: get_community_by_id and the membership check
JoinRead ==
    /\ race.on /\ race.join.pc = "start"
    /\ IF get_user_community_role(community_members, Racer.joined, Racer.member) # NoRole
       THEN /\ race' = [race EXCEPT !.join.pc = "done"]
            /\ last' = Fail("join_community", 400)
       ELSE /\ race' = [race EXCEPT !.join.pc = "checked",
                                    !.join.tags = communities[Racer.joined].tags]
            /\ UNCHANGED last
    /\ UNCHANGED <<storeVars, ops, likeVars, flightVars, trip, score,
                   threadVars, restVars>>

\* INSERT INTO community_members ...; commit
JoinInsert ==
    /\ race.on /\ race.join.pc = "checked"
    /\ community_members' =
            [community_members EXCEPT ![Racer.joined][Racer.member] = "member"]
    /\ race' = [race EXCEPT !.join.pc = "joined"]
    /\ UNCHANGED <<communities, user_topics, probe, last, ops, likeVars,
                   flightVars, trip, score,
                   threadVars, restVars>>

\* add_topics_to_user: the INSERT OR IGNOREs and the commit
JoinAddTopics ==
    /\ race.on /\ race.join.pc = "joined"
    /\ user_topics' = add_topics_to_user(user_topics, Racer.member, race.join.tags)
    /\ race' = [race EXCEPT !.join.pc = "added"]
    /\ UNCHANGED <<communities, community_members, probe, last, ops, likeVars,
                   flightVars, trip, score,
                   threadVars, restVars>>

\* join_community: get_user_topics and the message naming the added topics
JoinRespond ==
    /\ race.on /\ race.join.pc = "added"
    /\ race' = [race EXCEPT
                 !.join.pc = "done",
                 !.join.named = NotIn(race.join.tags,
                                      get_user_topics(user_topics, Racer.member))]
    /\ last' = Call("join_community", Racer.member, Racer.joined, 0, 200, {})
    /\ UNCHANGED <<storeVars, ops, likeVars, flightVars, trip, score,
                   threadVars, restVars>>

RaceNext ==
    \/ LeaveRead
    \/ RemoveRead
    \/ LeaveDelete
    \/ LeaveSelectTags
    \/ LeaveDeleteTopics
    \/ LeaveRespond
    \/ JoinRead
    \/ JoinInsert
    \/ JoinAddTopics
    \/ JoinRespond

\* the topic sets a member may have chosen in onboarding, or none
RaceOnboardings == { {}, {"Gaming", "Sports", "Art & Design"},
                     {"Sports", "Art & Design", "Music"} }

(***************************************************************************)
(* The relevance score of browse: a pure function of two lists.            *)
(* A score is kept as the fraction the division is given.                  *)
(***************************************************************************)
ScoreMaxTags == 2

RECURSIVE ListsUpTo(_, _)
ListsUpTo(S, n) ==
    IF n = 0 THEN { <<>> }
    ELSE LET shorter == ListsUpTo(S, n - 1)
         IN shorter \cup { Append(l, x) : l \in shorter, x \in S }

\* community tags are stored as submitted: repeats are possible
ScoreTagLists == ListsUpTo(AVAILABLE_TOPICS, ScoreMaxTags)

\* the topics of a user are rows under UNIQUE(user_id, topic)
ScoreTopicLists == { ListOf(S, 1) : S \in SUBSET AVAILABLE_TOPICS }

\* a variant that divides by the number of community tags
calculate_relevance_score_over_tags(community_tags, topics) ==
    IF topics = <<>>
    THEN [num |-> 0, den |-> 1]
    ELSE [num |-> Cardinality(Range(community_tags) \cap Range(topics)),
          den |-> Len(community_tags)]

\* routes/browse.py calculate_relevance_score
calculate_relevance_score(community_tags, topics) ==
    IF topics = <<>>
    THEN [num |-> 0, den |-> 1]
    ELSE [num |-> Cardinality(Range(community_tags) \cap Range(topics)),
          den |-> Len(topics)]

NoScore == [called |-> FALSE, community_tags |-> <<>>, user_topics |-> <<>>,
            result |-> [num |-> 0, den |-> 1]]

CallScore ==
    /\ ~score.called
    /\ score' = [score EXCEPT
                  !.called = TRUE,
                  !.result = calculate_relevance_score(score.community_tags,
                                                       score.user_topics)]
    /\ UNCHANGED <<storeVars, last, ops, likeVars, flightVars, trip, race,
                   threadVars, restVars>>

ScoreNext == CallScore

(***************************************************************************)
(* Comments and their tree.  A row keeps the columns the tree is built     *)
(* from; a deleted row leaves its id behind (AUTOINCREMENT).               *)
(***************************************************************************)
MaxComments == 3

\* post_id is not checked on insert: comments may name a post that is missing
ThreadPosts == PostIds \cup {MissingId}

\* column posts.community_id
post_community == [p \in PostIds |-> Racer.left]

\* the users who write comments
Commenters == {Racer.member}

Null == 0

Gone == [stored |-> FALSE, post_id |-> Null, user_id |-> Null,
         parent_id |-> Null]

NoTree == [post_id |-> Null, roots |-> <<>>, children |-> <<>>]

Stored(rows, comment_id) ==
    comment_id \in 1..Len(rows) /\ rows[comment_id].stored

InsertComment(rows, post_id, user_id, parent_id) ==
    Append(rows, [stored |-> TRUE, post_id |-> post_id, user_id |-> user_id,
                  parent_id |-> parent_id])

\* SELECT id FROM comments WHERE post_id = ?
IdsOfPost(rows, post_id) ==
    { c \in 1..Len(rows) : rows[c].stored /\ rows[c].post_id = post_id }

\* ... ORDER BY created_at ASC.  created_at is CURRENT_TIMESTAMP, to the
\* second, and rows of one second come back in any order: every listing of
\* the ids is the answer of a run whose inserts fell into one second.
Orders(rows, post_id) ==
    LET ids == IdsOfPost(rows, post_id)
        n == Cardinality(ids)
    IN { o \in [1..n -> ids] : \A i, j \in 1..n : i # j => o[i] # o[j] }

\* a variant of the loop that lists every comment among the roots
RECURSIVE BuildTreeAllRoots(_, _, _, _)
BuildTreeAllRoots(rows, todo, ids, acc) ==
    IF todo = <<>> THEN acc
    ELSE LET c == Head(todo)
             parent_id == rows[c].parent_id
             nested == IF parent_id # Null /\ parent_id \in ids
                       THEN [acc EXCEPT !.children[parent_id] = Append(@, c)]
                       ELSE acc
         IN BuildTreeAllRoots(rows, Tail(todo), ids,
                              [nested EXCEPT !.roots = Append(@, c)])

\* a variant of the loop that takes only comments without parent_id as roots
RECURSIVE BuildTreeNullRoots(_, _, _, _)
BuildTreeNullRoots(rows, todo, ids, acc) ==
    IF todo = <<>> THEN acc
    ELSE LET c == Head(todo)
             parent_id == rows[c].parent_id
         IN BuildTreeNullRoots(rows, Tail(todo), ids,
                IF parent_id # Null /\ parent_id \in ids
                THEN [acc EXCEPT !.children[parent_id] = Append(@, c)]
                ELSE IF parent_id = Null
                THEN [acc EXCEPT !.roots = Append(@, c)]
                ELSE acc)

\* get_comment_tree, the loop "for comment in comments.values()";
\* children None is the empty list here (the code never leaves an empty list)
RECURSIVE BuildTree(_, _, _, _)
BuildTree(rows, todo, ids, acc) ==
    IF todo = <<>> THEN acc
    ELSE LET c == Head(todo)
             parent_id == rows[c].parent_id
         IN BuildTree(rows, Tail(todo), ids,
                IF parent_id # Null /\ parent_id \in ids
                THEN [acc EXCEPT !.children[parent_id] = Append(@, c)]
                ELSE [acc EXCEPT !.roots = Append(@, c)])

\* routes/comments.py get_comment_tree, reached through list_comments
get_comment_tree(post_id, all_ids) ==
    /\ all_ids \in Orders(comments, post_id)
    /\ tree' = BuildTree(comments, all_ids, Range(all_ids),
                         [post_id |-> post_id, roots |-> <<>>,
                          children |-> [c \in 1..Len(comments) |-> <<>>]])
    /\ last' = Call("get_comment_tree", Null, Null, post_id, 200, {})
    /\ UNCHANGED comments

\* routes/comments.py create_comment
create_comment(post_id, parent_id, current_user_id) ==
    /\ Len(comments) < MaxComments
    /\ comments' = InsertComment(comments, post_id, current_user_id, parent_id)
    /\ tree' = NoTree
    /\ last' = Call("create_comment", current_user_id, Null, Len(comments'), 200, {})

\* routes/comments.py reply_to_comment
reply_to_comment(comment_id, current_user_id) ==
    /\ Len(comments) < MaxComments
    /\ IF ~Stored(comments, comment_id)
       THEN /\ last' = Fail("reply_to_comment", 404)
            /\ tree' = NoTree
            /\ UNCHANGED comments
       ELSE /\ comments' = InsertComment(comments, comments[comment_id].post_id,
                                         current_user_id, comment_id)
            /\ tree' = NoTree
            /\ last' = Call("reply_to_comment", current_user_id, Null,
                            Len(comments'), 200, {})

DeleteCommentStatus(rows, cm, comment_id, current_user_id) ==
    IF ~Stored(rows, comment_id) THEN 404
    ELSE IF rows[comment_id].post_id \notin PostIds THEN 404
    ELSE IF /\ rows[comment_id].user_id # current_user_id
            /\ get_user_community_role(cm, post_community[rows[comment_id].post_id],
                                       current_user_id) \notin {"owner", "moderator"}
         THEN 403
         ELSE 200

\* routes/comments.py delete_comment: the one row goes, its replies stay
delete_comment(comment_id, current_user_id) ==
    LET status == DeleteCommentStatus(comments, community_members, comment_id,
                                      current_user_id)
    IN IF status # 200
       THEN /\ last' = Fail("delete_comment", status)
            /\ tree' = NoTree
            /\ UNCHANGED comments
       ELSE /\ comments' = [comments EXCEPT ![comment_id] = Gone]
            /\ tree' = NoTree
            /\ last' = Call("delete_comment", Null, Null, comment_id, 200, {})

NoNode == [comment_id |-> Null, status |-> 0, children |-> <<>>]

\* SELECT id, parent_id FROM comments WHERE post_id = ? ORDER BY created_at
\* ASC, for the post of the comment asked for
SingleOrders(rows, comment_id) ==
    IF Stored(rows, comment_id)
    THEN Orders(rows, rows[comment_id].post_id)
    ELSE { <<>> }

\* a variant of the loop that nests only the replies to the comment asked for
RECURSIVE AttachReplies(_, _, _, _)
AttachReplies(rows, todo, ids, acc) ==
    IF todo = <<>> THEN acc
    ELSE LET c == Head(todo)
             parent_id == rows[c].parent_id
         IN AttachReplies(rows, Tail(todo), ids,
                IF parent_id # Null /\ parent_id = acc.comment_id
                THEN [acc EXCEPT !.children[parent_id] = Append(@, c)]
                ELSE acc)

\* get_single_comment, the loop "for c in comments.values()"
RECURSIVE AttachChildren(_, _, _, _)
AttachChildren(rows, todo, ids, acc) ==
    IF todo = <<>> THEN acc
    ELSE LET c == Head(todo)
             parent_id == rows[c].parent_id
         IN AttachChildren(rows, Tail(todo), ids,
                IF parent_id # Null /\ parent_id \in ids
                THEN [acc EXCEPT !.children[parent_id] = Append(@, c)]
                ELSE acc)

\* routes/comments.py get_single_comment: what the handler returns, the
\* requested comment of the mapping with the children lists attached
get_single_comment(comment_id, all_rows) ==
    /\ IF ~Stored(comments, comment_id)
       THEN node' = [NoNode EXCEPT !.comment_id = comment_id, !.status = 404]
       ELSE node' = AttachChildren(comments, all_rows, Range(all_rows),
                        [comment_id |-> comment_id, status |-> 200,
                         children |-> [c \in 1..Len(comments) |-> <<>>]])
    /\ last' = IF Stored(comments, comment_id)
               THEN Call("get_single_comment", Null, Null, comment_id, 200, {})
               ELSE Fail("get_single_comment", 404)
    /\ tree' = NoTree
    /\ UNCHANGED <<comments, storeVars, ops, likeVars, flightVars, trip, race,
                   score, restVars>>

ThreadInit == comments = <<>> /\ tree = NoTree /\ node = NoNode

ThreadRest ==
    /\ node' = NoNode
    /\ UNCHANGED <<storeVars, ops, likeVars, flightVars, trip, race, score,
                   restVars>>

ThreadNext ==
    \/ \E post_id \in ThreadPosts, parent_id \in 0..MaxComments,
          u \in Commenters :
            create_comment(post_id, parent_id, u) /\ ThreadRest
    \/ \E comment_id \in 1..MaxComments, u \in Commenters :
            reply_to_comment(comment_id, u) /\ ThreadRest
    \/ \E comment_id \in 1..MaxComments, u \in Users :
            delete_comment(comment_id, u) /\ ThreadRest
    \/ \E post_id \in ThreadPosts :
         \E all_ids \in Orders(comments, post_id) :
            get_comment_tree(post_id, all_ids) /\ ThreadRest
    \/ \E comment_id \in 1..MaxComments :
         \E all_rows \in SingleOrders(comments, comment_id) :
            get_single_comment(comment_id, all_rows)

(***************************************************************************)
(* Browse: relevance listing, trending fallback, trending.  The handlers   *)
(* only read; each is one step on the store as it is.                      *)
(***************************************************************************)
BrowseMaxLimit == 100
RecommendedMaxLimit == 20
TrendingMaxLimit == 50

\* the limits and offsets a client asks for; one limit is above trending's le=50
Limits == {1, 2, TrendingMaxLimit + 1}
Skips == 0..2

NoListing == [op |-> "none", status |-> 0, mode |-> "none", user |-> 0,
              skip |-> 0, limit |-> 0, rows |-> <<>>]

Listing(op, status, mode, user, skip, limit, rows) ==
    [op |-> op, status |-> status, mode |-> mode, user |-> user,
     skip |-> skip, limit |-> limit, rows |-> rows]

\* the injective listings of a set of ids
Perms(ids) ==
    { o \in [1..Cardinality(ids) -> ids] :
        \A i, j \in 1..Cardinality(ids) : i # j => o[i] # o[j] }

\* COUNT(cm.user_id) ... LEFT JOIN community_members ... GROUP BY c.id
member_count(cm, community_id) ==
    Cardinality({ u \in DOMAIN cm[community_id] : cm[community_id][u] # NoRole })

EnginePosition(eng, community_id) ==
    CHOOSE i \in 1..Len(eng) : eng[i] = community_id

\* a variant that orders by updated_at DESC alone
NewestFirst(cm, upd, eng, a, b) ==
    \/ upd[a] > upd[b]
    \/ /\ upd[a] = upd[b]
       /\ EnginePosition(eng, a) < EnginePosition(eng, b)

\* ORDER BY member_count DESC, c.updated_at DESC: a comes before b
TrendingBefore(cm, upd, eng, a, b) ==
    \/ member_count(cm, a) > member_count(cm, b)
    \/ /\ member_count(cm, a) = member_count(cm, b)
       /\ upd[a] > upd[b]
    \/ /\ member_count(cm, a) = member_count(cm, b)
       /\ upd[a] = upd[b]
       /\ EnginePosition(eng, a) < EnginePosition(eng, b)

\* the rows of the trending SELECT before LIMIT and OFFSET
TrendingOrder(comms, cm, upd, eng) ==
    CHOOSE o \in Perms(1..Len(comms)) :
        \A i, j \in 1..Len(comms) :
            i < j => TrendingBefore(cm, upd, eng, o[i], o[j])

\* a variant of the slice that starts at the first row whatever skip is
SliceNoSkip(rows, skip, limit) ==
    [i \in 1..(IF Len(rows) < limit THEN Len(rows) ELSE limit) |-> rows[i]]

\* LIMIT ? OFFSET ?, and the slice [skip : skip + limit]
Slice(rows, skip, limit) ==
    [i \in 1..(IF Len(rows) - skip < limit
               THEN (IF Len(rows) > skip THEN Len(rows) - skip ELSE 0)
               ELSE limit) |-> rows[skip + i]]

\* a variant that keeps the communities of score 0 as well
ScoredCommunities(comms, ut, user_id) ==
    { c \in 1..Len(comms) :
        calculate_relevance_score(comms[c].tags,
            ListOf(get_user_topics(ut, user_id), 1)).num >= 0 }

\* the communities kept by "if relevance_score > 0"
MatchingCommunities(comms, ut, user_id) ==
    { c \in 1..Len(comms) :
        calculate_relevance_score(comms[c].tags,
            ListOf(get_user_topics(ut, user_id), 1)).num > 0 }

\* a variant of the check that accepts any user with a topic
has_any_topic(ut, user_id) == Cardinality(ut[user_id]) >= 1

\* routes/browse.py has_completed_onboarding
browse_has_completed_onboarding(ut, user_id) ==
    Cardinality(ut[user_id]) >= MinTopics

\* routes/browse.py browse_communities; random.shuffle may leave any order
browse_communities(skip, limit, current_user_id) ==
    /\ IF limit \notin 1..BrowseMaxLimit \/ skip < 0
       THEN listing' = Listing("browse_communities", 422, "none",
                               current_user_id, skip, limit, <<>>)
       ELSE IF ~browse_has_completed_onboarding(user_topics, current_user_id)
       THEN listing' = Listing("browse_communities", 400, "none",
                               current_user_id, skip, limit, <<>>)
       ELSE LET matches == MatchingCommunities(communities, user_topics,
                                               current_user_id)
            IN IF matches = {}
               THEN listing' = Listing("browse_communities", 200, "fallback",
                        current_user_id, skip, limit,
                        Slice(TrendingOrder(communities, community_members,
                                            updated_at, engine), skip, limit))
               ELSE \E shuffled \in Perms(matches) :
                        listing' = Listing("browse_communities", 200, "matches",
                            current_user_id, skip, limit,
                            Slice(shuffled, skip, limit))
    /\ UNCHANGED <<updated_at, engine>>

\* routes/browse.py get_recommended_communities
get_recommended_communities(limit, current_user_id) ==
    /\ IF limit \notin 1..RecommendedMaxLimit
       THEN listing' = Listing("get_recommended_communities", 422, "none",
                               current_user_id, 0, limit, <<>>)
       ELSE IF ~browse_has_completed_onboarding(user_topics, current_user_id)
       THEN listing' = Listing("get_recommended_communities", 400, "none",
                               current_user_id, 0, limit, <<>>)
       ELSE LET matches == MatchingCommunities(communities, user_topics,
                                               current_user_id)
            IN IF matches = {}
               THEN listing' = Listing("get_recommended_communities", 200,
                        "fallback", current_user_id, 0, limit,
                        Slice(TrendingOrder(communities, community_members,
                                            updated_at, engine), 0, limit))
               ELSE \E shuffled \in Perms(matches) :
                        listing' = Listing("get_recommended_communities", 200,
                            "matches", current_user_id, 0, limit,
                            Slice(shuffled, 0, limit))
    /\ UNCHANGED <<updated_at, engine>>

\* routes/browse.py get_trending_communities: no identity
TrendingRows(comms, cm, upd, eng, limit, skip) ==
    Slice(TrendingOrder(comms, cm, upd, eng), skip, limit)

get_trending_communities(limit, skip) ==
    /\ IF limit \notin 1..TrendingMaxLimit \/ skip < 0
       THEN listing' = Listing("get_trending_communities", 422, "none", 0,
                               skip, limit, <<>>)
       ELSE listing' = Listing("get_trending_communities", 200, "trending", 0,
                               skip, limit,
                               TrendingRows(communities, community_members,
                                            updated_at, engine, limit, skip))
    /\ UNCHANGED <<updated_at, engine>>

\* the page sizes of a client that pages
PageSizes == {1, 2}

NoPaging == [on |-> FALSE]

PagingStart(user_id, limit) ==
    [on |-> TRUE, user |-> user_id, limit |-> limit, skip |-> 0,
     seen |-> <<>>, done |-> FALSE]

\* the next call of the client: browse_communities(skip, limit) with skip
\* advanced by the page size, until a page comes back empty
NextPage ==
    /\ paging.on /\ ~paging.done
    /\ browse_communities(paging.skip, paging.limit, paging.user)
    /\ paging' = [paging EXCEPT !.skip = @ + paging.limit,
                                !.seen = @ \o listing'.rows,
                                !.done = (listing'.rows = <<>>)]
    /\ UNCHANGED <<storeVars, last, ops, likeVars, flightVars, trip, race,
                   score, threadVars, postVars>>

PagingNext == NextPage

\* the handlers write nothing: a second request would read the same store
BrowseRest ==
    /\ listing = NoListing
    /\ UNCHANGED paging
    /\ UNCHANGED <<storeVars, last, ops, likeVars, flightVars, trip, race,
                   score, threadVars, postVars>>

BrowseNext ==
    \/ \E skip \in Skips, limit \in Limits, u \in Users :
            BrowseRest /\ browse_communities(skip, limit, u)
    \/ \E limit \in Limits, u \in Users :
            BrowseRest /\ get_recommended_communities(limit, u)
    \/ \E limit \in Limits, skip \in Skips :
            BrowseRest /\ get_trending_communities(limit, skip)

\* the seconds in which rows were created or last updated
Seconds == 0..1

(***************************************************************************)
(* Posts and post tags.  A community's post tags are rows of               *)
(* community_post_tags; a post's tags are rows of post_post_tags.  No      *)
(* connection sets PRAGMA foreign_keys, so ON DELETE CASCADE never runs.   *)
(***************************************************************************)
MaxPosts == 2
MaxPostTags == 2
\* the number of handler calls of a run
MaxPostOps == 3

PostRowIds == 1..MaxPosts
PostTagIds == 1..MaxPostTags

\* the names a post tag is created or renamed with
PostTagNames == {"Gaming", "News"}

\* the post_tag_ids a client sends: with repeats, with ids that were never
\* given out
PostTagIdLists == ListsUpTo(PostTagIds, MaxPostTags)

\* posts.tags is NULL in every row: no statement writes the column
NoTags == {}

NoPost == [stored |-> FALSE, community_id |-> Null, user_id |-> Null,
           tags |-> NoTags, created_at |-> 0]

NoPostTag == [stored |-> FALSE, community_id |-> Null, name |-> ""]

NoFeed == [called |-> FALSE, user |-> Null, mode |-> "none", rows |-> <<>>]

PostStored(rows, post_id) == post_id \in 1..Len(rows) /\ rows[post_id].stored

\* SELECT id FROM community_post_tags WHERE community_id = ?
valid_tag_ids(tags, community_id) ==
    { t \in 1..Len(tags) : tags[t].stored /\ tags[t].community_id = community_id }

\* routes/posts.py is_community_member
is_community_member(cm, community_id, user_id) ==
    get_user_community_role(cm, community_id, user_id) # NoRole

\* INSERT INTO post_post_tags for each id of the list; a repeated id breaks
\* PRIMARY KEY (post_id, tag_id)
HasRepeat(ids) == \E i, j \in 1..Len(ids) : i # j /\ ids[i] = ids[j]

LinksOf(post_id, ids) == { <<post_id, ids[i]>> : i \in 1..Len(ids) }

\* CURRENT_TIMESTAMP of an insert: not before that of the rows there are
Latest(rows) ==
    IF rows = <<>> THEN 0 ELSE rows[Len(rows)].created_at

\* routes/communities.py create_post_tag
create_post_tag(community_id, name, current_user_id) ==
    /\ IF get_user_community_role(community_members, community_id,
                                  current_user_id) \notin {"owner", "moderator"}
       THEN /\ last' = Fail("create_post_tag", 403)
            /\ UNCHANGED community_post_tags
       ELSE IF \E t \in valid_tag_ids(community_post_tags, community_id) :
                    community_post_tags[t].name = name
       THEN /\ last' = Fail("create_post_tag", 400)
            /\ UNCHANGED community_post_tags
       ELSE /\ community_post_tags' = Append(community_post_tags,
                    [stored |-> TRUE, community_id |-> community_id,
                     name |-> name])
            /\ last' = Call("create_post_tag", current_user_id, community_id,
                            Len(community_post_tags) + 1, 200, {})
    /\ UNCHANGED <<posts, post_post_tags, post_likes, posts_like_count>>

\* routes/communities.py update_post_tag.  The row is read back through the
\* cursor after the connection is closed, which raises: the call that renamed
\* the tag answers 500 as the one whose UPDATE broke UNIQUE(community_id, name).
update_post_tag(community_id, tag_id, name, current_user_id) ==
    /\ IF get_user_community_role(community_members, community_id,
                                  current_user_id) \notin {"owner", "moderator"}
       THEN /\ last' = Fail("update_post_tag", 403)
            /\ UNCHANGED community_post_tags
       ELSE IF tag_id \notin valid_tag_ids(community_post_tags, community_id)
       THEN /\ last' = Fail("update_post_tag", 404)
            /\ UNCHANGED community_post_tags
       ELSE IF \E t \in valid_tag_ids(community_post_tags, community_id) :
                    t # tag_id /\ community_post_tags[t].name = name
       THEN /\ last' = Fail("update_post_tag", 500)
            /\ UNCHANGED community_post_tags
       ELSE /\ community_post_tags' =
                    [community_post_tags EXCEPT ![tag_id].name = name]
            /\ last' = Call("update_post_tag", current_user_id, community_id,
                            tag_id, 500, {})
    /\ UNCHANGED <<posts, post_post_tags, post_likes, posts_like_count>>

\* routes/communities.py delete_post_tag: DELETE FROM community_post_tags
\* WHERE id = ? AND community_id = ?, and "Tag deleted" whatever it matched
delete_post_tag(community_id, tag_id, current_user_id) ==
    /\ IF get_user_community_role(community_members, community_id,
                                  current_user_id) \notin {"owner", "moderator"}
       THEN /\ last' = Fail("delete_post_tag", 403)
            /\ UNCHANGED community_post_tags
       ELSE /\ community_post_tags' =
                    IF tag_id \in valid_tag_ids(community_post_tags, community_id)
                    THEN [community_post_tags EXCEPT ![tag_id] = NoPostTag]
                    ELSE community_post_tags
            /\ last' = Call("delete_post_tag", current_user_id, community_id,
                            tag_id, 200, {})
    /\ UNCHANGED <<posts, post_post_tags, post_likes, posts_like_count>>

\* routes/posts.py create_post, written at the second `now`
create_post(community_id, tag_ids, current_user_id, now) ==
    /\ IF ~is_community_member(community_members, community_id, current_user_id)
       THEN /\ last' = Fail("create_post", 403)
            /\ UNCHANGED <<posts, post_post_tags, post_likes, posts_like_count>>
       ELSE IF /\ tag_ids # <<>>
               /\ ~(Range(tag_ids) \subseteq
                        valid_tag_ids(community_post_tags, community_id))
       THEN /\ last' = Fail("create_post", 400)
            /\ UNCHANGED <<posts, post_post_tags, post_likes, posts_like_count>>
       ELSE IF HasRepeat(tag_ids)
       THEN /\ last' = Fail("create_post", 500)
            /\ UNCHANGED <<posts, post_post_tags, post_likes, posts_like_count>>
       ELSE /\ posts' = Append(posts,
                    [stored |-> TRUE, community_id |-> community_id,
                     user_id |-> current_user_id, tags |-> NoTags,
                     created_at |-> now])
            /\ posts_like_count' = Append(posts_like_count, 0)
            /\ post_likes' = Append(post_likes, [u \in Users |-> NoRow])
            /\ post_post_tags' =
                    post_post_tags \cup LinksOf(Len(posts) + 1, tag_ids)
            /\ last' = Call("create_post", current_user_id, community_id,
                            Len(posts) + 1, 200, {})
    /\ UNCHANGED community_post_tags

\* routes/posts.py edit_post; `given` is whether the body has post_tag_ids
edit_post(post_id, given, tag_ids, current_user_id) ==
    /\ IF ~PostStored(posts, post_id)
       THEN /\ last' = Fail("edit_post", 404)
            /\ UNCHANGED post_post_tags
       ELSE IF posts[post_id].user_id # current_user_id
       THEN /\ last' = Fail("edit_post", 403)
            /\ UNCHANGED post_post_tags
       ELSE IF /\ given
               /\ ~(Range(tag_ids) \subseteq
                        valid_tag_ids(community_post_tags,
                                      posts[post_id].community_id))
       THEN /\ last' = Fail("edit_post", 400)
            /\ UNCHANGED post_post_tags
       ELSE IF given /\ HasRepeat(tag_ids)
       THEN /\ last' = Fail("edit_post", 500)
            /\ UNCHANGED post_post_tags
       ELSE /\ post_post_tags' =
                    IF given
                    THEN { l \in post_post_tags : l[1] # post_id }
                            \cup LinksOf(post_id, tag_ids)
                    ELSE post_post_tags
            /\ last' = Call("edit_post", current_user_id,
                            posts[post_id].community_id, post_id, 200, {})
    /\ UNCHANGED <<posts, community_post_tags, post_likes, posts_like_count>>

\* routes/posts.py delete_post: the rows of posts and post_likes (and of
\* post_media and post_views); the rows of post_post_tags stay
delete_post(post_id, current_user_id) ==
    /\ IF ~PostStored(posts, post_id)
       THEN /\ last' = Fail("delete_post", 404)
            /\ UNCHANGED <<posts, post_likes, posts_like_count>>
       ELSE IF /\ posts[post_id].user_id # current_user_id
               /\ get_user_community_role(community_members,
                        posts[post_id].community_id, current_user_id)
                    \notin {"owner", "moderator"}
       THEN /\ last' = Fail("delete_post", 403)
            /\ UNCHANGED <<posts, post_likes, posts_like_count>>
       ELSE /\ posts' = [posts EXCEPT ![post_id] = NoPost]
            /\ posts_like_count' = [posts_like_count EXCEPT ![post_id] = 0]
            /\ post_likes' = [post_likes EXCEPT
                                ![post_id] = [u \in Users |-> NoRow]]
            /\ last' = Call("delete_post", current_user_id, 0, post_id, 200, {})
    /\ UNCHANGED <<community_post_tags, post_post_tags>>

\* what a post handler leaves alone
PostsRest ==
    /\ feed' = NoFeed
    /\ UNCHANGED <<storeVars, comment_likes, comments_like_count, flightVars,
                   trip, race, score, threadVars, browseVars>>

PostTick ==
    /\ ops < MaxPostOps
    /\ ops' = ops + 1

PostsNext ==
    \/ \E c \in CommunityIds, n \in PostTagNames, u \in Users :
            /\ PostTick /\ PostsRest
            /\ Len(community_post_tags) < MaxPostTags
            /\ create_post_tag(c, n, u)
    \/ \E c \in CommunityIds, t \in PostTagIds, n \in PostTagNames, u \in Users :
            PostTick /\ PostsRest /\ update_post_tag(c, t, n, u)
    \/ \E c \in CommunityIds, t \in PostTagIds, u \in Users :
            PostTick /\ PostsRest /\ delete_post_tag(c, t, u)
    \/ \E c \in CommunityIds, ids \in PostTagIdLists, u \in Users,
          now \in Seconds :
            /\ PostTick /\ PostsRest
            /\ Len(posts) < MaxPosts
            /\ now >= Latest(posts)
            /\ create_post(c, ids, u, now)
    \/ \E p \in PostRowIds, given \in BOOLEAN, ids \in PostTagIdLists,
          u \in Users :
            /\ PostTick /\ PostsRest
            /\ given \/ ids = <<>>
            /\ edit_post(p, given, ids, u)
    \/ \E p \in PostRowIds, u \in Users :
            PostTick /\ PostsRest /\ delete_post(p, u)

(***************************************************************************)
(* The home feed                                                           *)
(***************************************************************************)
HomeLimit == 20

\* SELECT * FROM posts WHERE user_id != ?
OtherPosts(rows, user_id) ==
    { p \in 1..Len(rows) : rows[p].stored /\ rows[p].user_id # user_id }

\* the loop of get_home_recommendations: the posts whose tags column holds a
\* topic of the user
Recommended(rows, ut, user_id) ==
    { p \in OtherPosts(rows, user_id) :
        /\ rows[p].tags # NoTags
        /\ ut[user_id] # {}
        /\ ut[user_id] \cap rows[p].tags # {} }

\* ORDER BY like_count DESC, created_at DESC: a may come before b
FeedBefore(rows, counts, a, b) ==
    \/ counts[a] > counts[b]
    \/ counts[a] = counts[b] /\ rows[a].created_at >= rows[b].created_at

FeedOrders(rows, counts, ids) ==
    { o \in Perms(ids) :
        \A i, j \in 1..Len(o) : i < j => FeedBefore(rows, counts, o[i], o[j]) }

Feed(user_id, mode, rows) ==
    [called |-> TRUE, user |-> user_id, mode |-> mode, rows |-> rows]

\* routes/profile.py get_home_recommendations
get_home_recommendations(user_id) ==
    /\ feed = NoFeed
    /\ LET recommended == Recommended(posts, user_topics, user_id)
       IN IF recommended # {}
          THEN \E o \in Perms(recommended) :
                    feed' = Feed(user_id, "matched", Slice(o, 0, HomeLimit))
          ELSE \E o \in FeedOrders(posts, posts_like_count,
                                   OtherPosts(posts, user_id)) :
                    feed' = Feed(user_id, "fallback", Slice(o, 0, HomeLimit))
    /\ UNCHANGED <<storeVars, last, ops, likeVars, flightVars, trip, race,
                   score, threadVars, browseVars, posts, community_post_tags,
                   post_post_tags>>

FeedNext ==
    \E u \in Users : get_home_recommendations(u)

PostsIdle ==
    /\ posts = <<>> /\ community_post_tags = <<>> /\ post_post_tags = {}
    /\ feed = NoFeed

BrowseIdle ==
    /\ updated_at = <<>> /\ engine = <<>> /\ listing = NoListing
    /\ paging = NoPaging

RestInit == BrowseIdle /\ PostsIdle

\* what complete_onboarding stored for the first user, if they called it
BrowseOnboardings == { {}, {"Gaming", "Sports", "Art & Design"},
                       {"Sports", "Art & Design", "Music"} }

\* stores the handlers leave: communities created by some users, updated or
\* not, joined by other users; a user's topics are those of the communities
\* they joined and, for the first user, those of onboarding
BrowseStores ==
    /\ LikesInit /\ FlightInit /\ trip = NoTrip /\ race = NoRace
    /\ score = NoScore /\ ThreadInit
    /\ last = NoCall /\ ops = 0 /\ probe = NoProbe
    /\ listing = NoListing /\ PostsIdle
    /\ \E n \in 0..Cardinality(Names) :
        /\ \E tags \in [1..n -> { t \in TagLists : validate_tags(t) }],
              owner \in [1..n -> Users] :
                communities = [c \in 1..n |->
                    [name |-> IF c = 1 THEN "alpha" ELSE "beta",
                     tags |-> tags[c], owner_id |-> owner[c]]]
        /\ \E joined \in [1..n -> SUBSET Users] :
                community_members = [c \in 1..n |-> [u \in Users |->
                    IF u = communities[c].owner_id THEN "owner"
                    ELSE IF u \in joined[c] THEN "member" ELSE NoRole]]
        /\ updated_at \in [1..n -> Seconds]
        /\ engine \in Perms(1..n)
        /\ \E onboarding \in BrowseOnboardings :
                user_topics = [u \in Users |->
                    (IF u = Racer.member THEN onboarding ELSE {}) \cup
                    UNION { Range(communities[c].tags) :
                            c \in { d \in 1..n :
                                     community_members[d][u] = "member" } }]

InitBrowse == BrowseStores /\ paging = NoPaging

\* a client that starts paging through browse_communities on such a store
InitPaging ==
    /\ BrowseStores
    /\ \E u \in Users, k \in PageSizes : paging = PagingStart(u, k)

InitRace ==
    /\ LikesInit /\ FlightInit /\ trip = NoTrip
    /\ score = NoScore /\ ThreadInit /\ RestInit
    /\ last = NoCall /\ ops = 0 /\ probe = NoProbe
    /\ \E tags1, tags2 \in { t \in TagLists : validate_tags(t) },
          onboarding \in RaceOnboardings :
            /\ communities = RaceCommunities(tags1, tags2)
            /\ community_members = RaceMembers
            /\ user_topics = RaceTopics(tags1, onboarding)
            /\ race = RaceStart

\* one community, whose owner may delete the comments of its posts
InitThread ==
    /\ LikesInit /\ FlightInit /\ trip = NoTrip /\ race = NoRace
    /\ score = NoScore /\ ThreadInit /\ RestInit
    /\ last = NoCall /\ ops = 0 /\ probe = NoProbe
    /\ communities = RaceCommunities(<<"Music">>, <<"Music">>)
    /\ community_members = RaceMembers
    /\ user_topics = RaceTopics(<<"Music">>, {})

InitScore ==
    /\ StoreInit /\ LikesInit /\ FlightInit /\ trip = NoTrip /\ race = NoRace
    /\ ThreadInit /\ RestInit
    /\ \E community_tags \in ScoreTagLists, topics \in ScoreTopicLists :
            score = [NoScore EXCEPT !.community_tags = community_tags,
                                    !.user_topics = topics]

(***************************************************************************)
(* Specifications                                                          *)
(***************************************************************************)
vars == <<storeVars, last, ops, likeVars, flightVars, trip, race, score,
          threadVars, restVars>>

Init ==
    /\ StoreInit /\ LikesInit /\ FlightInit /\ trip = NoTrip /\ race = NoRace
    /\ score = NoScore /\ ThreadInit /\ RestInit

InitTrip ==
    /\ StoreInit /\ LikesInit /\ FlightInit /\ race = NoRace
    /\ score = NoScore /\ ThreadInit /\ RestInit
    /\ \E kind \in {"post", "comment"} : trip = TripStart(kind)

Next == StoreNext(MaxOps)

\* the community and onboarding endpoints, one request at a time
Spec == Init /\ [][Next]_vars

\* the same endpoints in shorter runs
MaxMemberOps == 3

MembersNext == StoreNext(MaxMemberOps)

SpecMembers == Init /\ [][MembersNext]_vars

\* the number of handler calls of a run that may change a community's tags
MaxTagOps == 3

TagsNext ==
    \/ StoreNext(MaxTagOps)
    \/ \E c \in CommunityIds, t \in TagLists, u \in Users :
            Tick(MaxTagOps) /\ update_community(c, t, u)

\* the community and onboarding endpoints with update_community
SpecTags == Init /\ [][TagsNext]_vars

\* the number of membership calls of a run on a stored community
MaxRoleOps == 2

\* the store after the owner created a community and each other user stayed
\* out, joined, or joined and was promoted
StoredRoles(tags, roles) ==
    /\ communities = << [name |-> "alpha", tags |-> tags,
                         owner_id |-> Racer.owner] >>
    /\ community_members =
            << [u \in Users |-> IF u = Racer.owner THEN "owner" ELSE roles[u]] >>
    /\ user_topics =
            [u \in Users |-> IF u # Racer.owner /\ roles[u] # NoRole
                             THEN Range(tags) ELSE {}]
    /\ last = NoCall
    /\ ops = 0
    /\ probe = <<>>

InitRoles ==
    /\ \E tags \in { t \in TagLists : validate_tags(t) },
          roles \in [Users -> {NoRole, "member", "moderator"}] :
            StoredRoles(tags, roles)
    /\ LikesInit /\ FlightInit /\ trip = NoTrip /\ race = NoRace
    /\ score = NoScore /\ ThreadInit /\ RestInit

\* the membership endpoints, one request at a time
RolesNext ==
    \/ \E c \in CommunityIds, u \in Users :
            Tick(MaxRoleOps) /\ join_community(c, u)
    \/ \E c \in CommunityIds, u \in Users :
            Tick(MaxRoleOps) /\ leave_community(c, u)
    \/ \E c \in CommunityIds, u \in Users, v \in Users,
           r \in RoleInputs :
            Tick(MaxRoleOps) /\ update_member_role(c, v, r, u)
    \/ \E c \in CommunityIds, u \in Users, v \in Users :
            Tick(MaxRoleOps) /\ remove_member(c, v, u)

SpecRoles == InitRoles /\ [][RolesNext]_vars

\* the store after the owner created both communities and the first user
\* joined the first of them and was promoted or not; no post, no post tag
InitPosts ==
    /\ communities = RaceCommunities(<<"Gaming", "Music">>, <<"Music">>)
    /\ \E role \in {"member", "moderator"} :
            community_members =
                [RaceMembers EXCEPT ![Racer.left][Racer.member] = role]
    /\ user_topics = RaceTopics(<<"Gaming", "Music">>, {})
    /\ last = NoCall /\ ops = 0 /\ probe = NoProbe
    /\ post_likes = <<>> /\ posts_like_count = <<>>
    /\ comment_likes = [c \in CommentIds |-> [u \in Users |-> NoRow]]
    /\ comments_like_count = [c \in CommentIds |-> 0]
    /\ FlightInit /\ trip = NoTrip /\ race = NoRace
    /\ score = NoScore /\ ThreadInit /\ RestInit

\* the post and post tag endpoints, one request at a time
SpecPosts == InitPosts /\ [][PostsNext]_vars

\* the post tags the owner defined for the first community
FeedPostTags ==
    { <<>>,
      << [stored |-> TRUE, community_id |-> Racer.left, name |-> "Gaming"] >>,
      << [stored |-> TRUE, community_id |-> Racer.left, name |-> "Gaming"],
         [stored |-> TRUE, community_id |-> Racer.left, name |-> "News"] >> }

\* stores the handlers leave: the owner created both communities and some
\* post tags of the first, the first user onboarded or not and joined the
\* first; the two of them posted there with some of its tags, and the first
\* user liked some of the posts
InitFeed ==
    /\ \E onboarding \in RaceOnboardings :
            /\ communities = RaceCommunities(<<"Gaming", "Music">>, <<"Music">>)
            /\ community_members = RaceMembers
            /\ user_topics = RaceTopics(<<"Gaming", "Music">>, onboarding)
    /\ community_post_tags \in FeedPostTags
    /\ \E n \in 0..MaxPosts :
        /\ \E author \in [1..n -> {Racer.member, Racer.owner}],
              at \in [1..n -> Seconds] :
                /\ \A p, q \in 1..n : p < q => at[p] <= at[q]
                /\ posts = [p \in 1..n |->
                        [stored |-> TRUE, community_id |-> Racer.left,
                         user_id |-> author[p], tags |-> NoTags,
                         created_at |-> at[p]]]
        /\ post_post_tags \in
                SUBSET ((1..n) \X (1..Len(community_post_tags)))
        /\ \E liked \in SUBSET (1..n) :
                /\ post_likes = [p \in 1..n |-> [u \in Users |->
                        IF p \in liked /\ u = Racer.member
                        THEN 1 ELSE NoRow]]
                /\ posts_like_count =
                        [p \in 1..n |-> IF p \in liked THEN 1 ELSE 0]
    /\ comment_likes = [c \in CommentIds |-> [u \in Users |-> NoRow]]
    /\ comments_like_count = [c \in CommentIds |-> 0]
    /\ last = NoCall /\ ops = 0 /\ probe = NoProbe
    /\ FlightInit /\ trip = NoTrip /\ race = NoRace
    /\ score = NoScore /\ ThreadInit /\ BrowseIdle /\ feed = NoFeed

\* one call of the home feed on such a store
SpecFeed == InitFeed /\ [][FeedNext]_vars

\* the same, with direct calls of remove_topics_from_user
SpecBookkeeper == Init /\ [][BookkeeperNext]_vars

\* the same, with repeated and reordered calls of the two helpers
SpecHelpers == Init /\ [][HelperNext]_vars

\* the like endpoints, one request at a time
SpecLikes == Init /\ [][LikesNext]_vars

\* the like endpoints, requests overlapping
SpecLikesFlight == Init /\ [][FlightNext]_vars

\* like(+1), unlike and like(-1) of one user, in any order and overlap
SpecRoundTrip == InitTrip /\ [][TripNext]_vars

\* a leave or removal and a join of one user, overlapping
SpecRace == InitRace /\ [][RaceNext]_vars

\* calculate_relevance_score applied to bounded lists
SpecScore == InitScore /\ [][ScoreNext]_vars

\* the comment endpoints, one request at a time
SpecThread == InitThread /\ [][ThreadNext]_vars

\* the browse endpoints on the stores the handlers leave
SpecBrowse == InitBrowse /\ [][BrowseNext]_vars

\* successive pages of browse_communities, the store unchanged
SpecPaging == InitPaging /\ [][PagingNext]_vars

(***************************************************************************)
(* Properties of the topic store                                           *)
(***************************************************************************)
\* the topics listed by the communities the user is a member of
UsedTopics(user_id) ==
    UNION { Range(communities[c].tags) :
                c \in { d \in 1..Len(communities) :
                            community_members[d][user_id] # NoRole } }

\* the user whose preferences the last call touched
Affected == IF last.op \in {"remove_member", "update_member_role"}
            THEN last.target ELSE last.user

Succeeded(op) == last.op = op /\ last.status = 200

\* C1: no handler call deletes a topic from a user's preference set while a
\* community the user is a member of still lists that topic among its tags.
C1_NoDeletionWhileListed ==
    (last.op # "none" /\ last.status = 200) =>
        \A t \in last.before \ user_topics[Affected] : t \notin UsedTopics(Affected)

\* C3: remove_topics_from_user(U, T) deletes from U's preferences exactly the
\* topics of T that no community U is a member of lists; every other topic of
\* U, and every other user's preferences, stay as they were.
C3_RemovesExactlyUnused ==
    probe # NoProbe /\ probe.fn = "remove_topics_from_user" =>
        /\ user_topics[probe.user_id] =
                probe.before[probe.user_id]
                    \ (Range(probe.topics) \ UsedTopics(probe.user_id))
        /\ \A u \in Users \ {probe.user_id} : user_topics[u] = probe.before[u]

\* a call that deleted one listed topic and kept another one that a joined
\* community still lists
C3_Witness ==
    /\ probe # NoProbe
    /\ probe.fn = "remove_topics_from_user"
    /\ \E t1, t2 \in Range(probe.topics) :
            /\ t1 \in probe.before[probe.user_id] \ user_topics[probe.user_id]
            /\ t2 \in probe.before[probe.user_id] \cap user_topics[probe.user_id]
            /\ t2 \in UsedTopics(probe.user_id)

C10_Onboarding == {"Gaming", "Sports", "Art & Design"}

\* C10: a user with topics {Gaming, Sports, Art & Design} who joins a community
\* tagged [Gaming, Music] has {Gaming, Sports, Art & Design, Music} afterwards;
\* leaving it then, with no other membership, removes Music and nothing else.
C10_JoinThenLeave ==
    /\ ( /\ Succeeded("join_community")
         /\ last.before = C10_Onboarding
         /\ communities[last.community].tags = <<"Gaming", "Music">> )
        => user_topics[last.user] = C10_Onboarding \cup {"Music"}
    /\ ( /\ Succeeded("leave_community")
         /\ last.before = C10_Onboarding \cup {"Music"}
         /\ communities[last.community].tags = <<"Gaming", "Music">>
         /\ \A c \in 1..Len(communities) :
                community_members[c][last.user] = NoRole )
        => user_topics[last.user] = C10_Onboarding

(***************************************************************************)
(* Properties of the like counters                                         *)
(***************************************************************************)
RECURSIVE SumOver(_, _)
SumOver(row, S) ==
    IF S = {} THEN 0
    ELSE LET u == CHOOSE x \in S : TRUE IN row[u] + SumOver(row, S \ {u})

\* the sum of the values of the like rows stored for one post or comment
SumOfLikes(likes, id) == SumOver(likes[id], DOMAIN likes[id])

CountsMatchLikes ==
    /\ \A p \in PostIds : posts_like_count[p] = SumOfLikes(post_likes, p)
    /\ \A c \in CommentIds : comments_like_count[c] = SumOfLikes(comment_likes, c)

\* C2: after any sequence of like and unlike calls, each run to completion, the
\* like_count of every post and comment is the sum of its stored like values.
C2_CountIsSumOfLikes == CountsMatchLikes

\* a post liked by one user and disliked, after a like, by the other
C2_Witness ==
    /\ \E p \in PostIds : \E u, v \in Users :
            /\ post_likes[p][u] = 1 /\ post_likes[p][v] = -1
            /\ posts_like_count[p] = 0
    /\ \E c \in CommentIds : comments_like_count[c] = -NumUsers
    /\ last.op = "like_post"

AllIdle == \A c \in Conns : ~InFlight(c)

\* C7: when two requests of one user on one post or comment have overlapped,
\* then once every request has finished like_count is the sum of the stored
\* like values.
C7_SameUserOverlap ==
    (AllIdle /\ overlap.same /\ ~overlap.different) => CountsMatchLikes

\* C8: when only requests of different users have overlapped, no counter update
\* is lost: once every request has finished like_count is the sum of the
\* stored like values.
C8_DifferentUsersCompose == (AllIdle /\ ~overlap.same) => CountsMatchLikes

\* two users' likes of one post overlapped and both are counted
C8_Witness ==
    /\ AllIdle
    /\ overlap.different
    /\ ~overlap.same
    /\ \E p \in PostIds : posts_like_count[p] = 2

TripDone == trip # NoTrip /\ \A i \in 1..Len(TripCalls) : trip.pc[i] = "done"

TripCount == CountsOf(trip.kind)[TripTarget.id]

\* C9 as stated: whatever the order and overlap of the three calls, like_count is
\* -1 once they have finished.
C9_AnyOrder == TripDone => TripCount = -1

\* C9 as amended: when the three calls run one after another in the order
\* like(+1), unlike, like(-1), like_count is -1 once they have finished, and so
\* is the stored like.
C9_InOrder ==
    (TripDone /\ ~trip.overlapped /\ trip.order = <<1, 2, 3>>) =>
        /\ TripCount = -1
        /\ LikesOf(trip.kind)[TripTarget.id][TripTarget.user] = -1

\* the three calls have run in that order, without overlap
C9_Witness ==
    /\ TripDone
    /\ ~trip.overlapped
    /\ trip.order = <<1, 2, 3>>
    /\ TripCount = -1

(***************************************************************************)
(* Properties of a leave and a join that overlap                           *)
(***************************************************************************)
RaceDone == race.on /\ race.leave.pc = "done" /\ race.join.pc = "done"

\* C6: when a leave of (or removal from) one community and a join of another
\* that shares a tag run concurrently for one user, then whatever the
\* interleaving the user, a member of the joined community at the end, still
\* has every shared tag in the preference set.
C6_SharedTagSurvives ==
    (RaceDone /\ community_members[Racer.joined][Racer.member] # NoRole) =>
        \A t \in Range(communities[Racer.left].tags)
                    \cap Range(communities[Racer.joined].tags) :
            t \in user_topics[Racer.member]

(***************************************************************************)
(* Properties of the relevance score                                       *)
(***************************************************************************)
ScoreShared == Range(score.community_tags) \cap Range(score.user_topics)

ScoreIsZero == score.result.num = 0

ScoreIsOne == score.result.num = score.result.den

\* C4: for every community tag set C and user topic set S, the score is 0
\* exactly when C and S share no element, and 1.0 exactly when every element
\* of S is in C.
C4_ZeroAndOne ==
    score.called =>
        /\ ScoreIsZero <=> ScoreShared = {}
        /\ ScoreIsOne <=> Range(score.user_topics) \subseteq Range(score.community_tags)

\* C4, with the empty topic list set apart: the score is 0 exactly when C and
\* S share no element, and 1.0 exactly when S is not empty and every element
\* of S is in C.
C4_ZeroAndOneNonEmpty ==
    score.called =>
        /\ ScoreIsZero <=> ScoreShared = {}
        /\ ScoreIsOne <=>
              /\ score.user_topics # <<>>
              /\ Range(score.user_topics) \subseteq Range(score.community_tags)

C4_Witness ==
    /\ score.called
    /\ Len(score.user_topics) = 2
    /\ Range(score.user_topics) \subseteq Range(score.community_tags)
    /\ ScoreIsOne

(***************************************************************************)
(* Properties of the comment tree                                          *)
(***************************************************************************)
\* the parent of a comment among the comments of its post, or Null
ParentWithin(c) ==
    IF comments[c].parent_id \in IdsOfPost(comments, comments[c].post_id)
    THEN comments[c].parent_id
    ELSE Null

RECURSIVE Up(_, _)
Up(c, k) == IF k = 0 \/ c = Null THEN c ELSE Up(ParentWithin(c), k - 1)

Acyclic(post_id) ==
    \A c \in IdsOfPost(comments, post_id) :
        \A k \in 1..Len(comments) : Up(c, k) # c

\* the comments of the forest under a list of nodes, parents first
RECURSIVE Flatten(_, _)
Flatten(nodes, fuel) ==
    IF nodes = <<>> \/ fuel = 0 THEN <<>>
    ELSE <<Head(nodes)>> \o Flatten(tree.children[Head(nodes)], fuel - 1)
                         \o Flatten(Tail(nodes), fuel)

Count(list, x) == Cardinality({ i \in DOMAIN list : list[i] = x })

\* the lists of the result that hold c: the roots, or the children of a parent
Holders(c) ==
    { p \in 0..Len(comments) :
        IF p = 0 THEN Count(tree.roots, c) > 0
        ELSE Count(tree.children[p], c) > 0 }

Chain(post_id, a, b, c) ==
    /\ IdsOfPost(comments, post_id) = {a, b, c}
    /\ a # b /\ b # c /\ a # c
    /\ comments[a].parent_id = Null
    /\ comments[b].parent_id = a
    /\ comments[c].parent_id = b

\* C5: when the parent references of the comments of a post are acyclic,
\* get_comment_tree returns a forest that holds every comment of the post
\* exactly once, as a root or in the children of exactly one parent, and in
\* which no comment is its own ancestor; a chain A <- B <- C comes back as
\* [A] with A.children = [B], B.children = [C] and C without children.
C5_Forest ==
    (tree.post_id # Null /\ Acyclic(tree.post_id)) =>
        LET ids == IdsOfPost(comments, tree.post_id)
            flat == Flatten(tree.roots, Len(comments) + 1)
        IN /\ Range(flat) = ids
           /\ \A c \in ids :
                /\ Count(flat, c) = 1
                /\ Cardinality(Holders(c)) = 1
                /\ \A h \in Holders(c) :
                      Count(IF h = 0 THEN tree.roots ELSE tree.children[h], c) = 1
                /\ c \notin Range(Flatten(tree.children[c], Len(comments) + 1))
           /\ \A a, b, c \in ids :
                Chain(tree.post_id, a, b, c) =>
                    /\ tree.roots = <<a>>
                    /\ tree.children[a] = <<b>>
                    /\ tree.children[b] = <<c>>
                    /\ tree.children[c] = <<>>

C5_Witness ==
    /\ tree.post_id # Null
    /\ \E a, b, c \in IdsOfPost(comments, tree.post_id) :
            /\ Chain(tree.post_id, a, b, c)
            /\ tree.roots = <<a>>
            /\ tree.children[a] = <<b>>
            /\ tree.children[b] = <<c>>

\* a comment whose parent_id names no comment of its post
Orphan(c) == comments[c].parent_id # Null /\ ParentWithin(c) = Null

\* the replies to c among the comments of its post
Replies(c) ==
    { d \in IdsOfPost(comments, comments[c].post_id) :
        comments[d].parent_id = c }

\* C22: get_comment_tree raises no error and returns as a root, once, every
\* comment whose parent_id names a comment that is not among the comments of
\* the post (of another post, never created, or deleted), with the replies to
\* it in its children.
C22_OrphanIsRoot ==
    last.op = "get_comment_tree" =>
        /\ last.status = 200
        /\ \A c \in IdsOfPost(comments, tree.post_id) :
                Orphan(c) =>
                    /\ Count(tree.roots, c) = 1
                    /\ Range(tree.children[c]) = Replies(c)
                    /\ \A d \in Replies(c) : Count(tree.children[c], d) = 1

\* a root whose parent was deleted, with a reply in its children
C22_Witness ==
    /\ last.op = "get_comment_tree"
    /\ \E c \in IdsOfPost(comments, tree.post_id) :
            /\ ~Stored(comments, comments[c].parent_id)
            /\ comments[c].parent_id \in 1..Len(comments)
            /\ Count(tree.roots, c) = 1
            /\ tree.children[c] # <<>>

\* the comments of the same post below c through parent references
Descendants(c) ==
    { d \in IdsOfPost(comments, comments[c].post_id) :
        \E k \in 1..Len(comments) : Up(d, k) = c }

\* the comments reached from a set of comments through the children lists
RECURSIVE Under(_, _)
Under(nodes, fuel) ==
    IF fuel = 0 THEN nodes
    ELSE Under(nodes \cup UNION { Range(node.children[x]) : x \in nodes },
               fuel - 1)

Attached(c) == Under(Range(node.children[c]), Len(comments))

Returned == node.status = 200 /\ last.op = "get_single_comment"

\* C21: get_single_comment(c) returns the node of c, and the comments
\* attached below it are exactly the comments of the same post that descend
\* from c through parent references, each once and in the children of its
\* own parent.
C21_Subtree ==
    /\ (last.op = "get_single_comment" /\ Stored(comments, node.comment_id)) =>
            node.status = 200
    /\ Returned =>
        /\ Attached(node.comment_id) = Descendants(node.comment_id)
        /\ \A d \in Descendants(node.comment_id) :
                \A p \in 1..Len(comments) :
                    Count(node.children[p], d) =
                        IF p = ParentWithin(d) THEN 1 ELSE 0

\* the comment asked for has a reply and a reply to that reply, and is not
\* below itself
C21_Witness ==
    /\ Returned
    /\ \E d, e \in Descendants(node.comment_id) :
            /\ comments[d].parent_id = node.comment_id
            /\ comments[e].parent_id = d
            /\ e # node.comment_id
    /\ node.comment_id \notin Descendants(node.comment_id)

\* C30: the parent references of the comments of a post hold no cycle and no
\* self-reference, and every stored comment of a post is in the result of
\* get_comment_tree, as a root or below a root.
C30_NoCycle ==
    /\ \A post_id \in ThreadPosts : Acyclic(post_id)
    /\ last.op = "get_comment_tree" =>
            Range(Flatten(tree.roots, Len(comments) + 1)) =
                IdsOfPost(comments, tree.post_id)

(***************************************************************************)
(* Properties of the helpers under repetition and reordering               *)
(***************************************************************************)
Reordered == probe # NoProbe /\ probe.fn = "add_then_remove"

\* C11: for a fixed user with fixed memberships, add_topics_to_user(A) then
\* remove_topics_from_user(R) leaves the same preference set as
\* remove_topics_from_user(R) then add_topics_to_user(A), for all A and R.
C11_Commute == Reordered => user_topics = probe.swapped

\* C11, for lists that share no unused topic: when every topic in both A and R
\* is listed by a community the user is a member of, the two orders leave the
\* same preference set.
C11_CommuteOnUsed ==
    ( /\ Reordered
      /\ Range(probe.added) \cap Range(probe.removed)
            \subseteq UsedTopics(probe.user_id) )
        => user_topics = probe.swapped

\* both lists name a used topic, one topic was added and another one deleted
C11_Witness ==
    /\ Reordered
    /\ Range(probe.added) \cap Range(probe.removed) # {}
    /\ Range(probe.added) \cap Range(probe.removed)
            \subseteq UsedTopics(probe.user_id)
    /\ user_topics[probe.user_id] \ probe.before[probe.user_id] # {}
    /\ probe.before[probe.user_id] \ user_topics[probe.user_id] # {}
    /\ user_topics = probe.swapped

Added == probe # NoProbe /\ probe.fn = "add_topics_to_user"

\* C12: add_topics_to_user(U, T) leaves U's previous preferences united with
\* T, whether T repeats a topic or names a stored one, and a second call with
\* T leaves what the first call left; no other user's preferences change.
C12_AddIdempotent ==
    Added =>
        /\ user_topics[probe.user_id] =
                probe.before[probe.user_id] \cup Range(probe.topics)
        /\ \A u \in Users \ {probe.user_id} : user_topics[u] = probe.before[u]
        /\ user_topics = probe.once

\* a second call with a list that repeats a topic and names a stored one
C12_Witness ==
    /\ Added
    /\ probe.calls = 2
    /\ Cardinality(Range(probe.topics)) < Len(probe.topics)
    /\ Range(probe.topics) \cap probe.before[probe.user_id] # {}
    /\ Range(probe.topics) \ probe.before[probe.user_id] # {}

\* C23: a call of add_topics_to_user or remove_topics_from_user leaves the
\* communities, their tags and every membership row as they were, and changes
\* the preferences of no user but the one it is called for.
C23_OnlyPreferences ==
    [][ probe' # probe =>
            /\ communities' = communities
            /\ community_members' = community_members
            /\ \A u \in Users \ {probe'.user_id} :
                    user_topics'[u] = user_topics[u]
      ]_vars

\* the two helpers changed the preferences of a user of a store with a
\* community, while another user has preferences
C23_Witness ==
    /\ Reordered
    /\ user_topics[probe.user_id] # probe.before[probe.user_id]
    /\ communities # <<>>
    /\ \E u \in Users \ {probe.user_id} : user_topics[u] # {}

\* C24: each user's preference set holds every tag of every community the
\* user is a member of, the communities the user owns included.
C24_TagsInPreferences ==
    \A u \in Users, c \in 1..Len(communities) :
        get_user_community_role(community_members, c, u) # NoRole =>
            Range(communities[c].tags) \subseteq user_topics[u]

\* C26: the message of a successful join_community names exactly the tags of
\* the community that the user did not have before the join.
C26_JoinNames ==
    Succeeded("join_community") =>
        Range(last.named) =
            Range(communities[last.community].tags) \ last.before

\* C28: a user who has at least 3 topic preferences still has at least 3
\* after any join_community, leave_community or remove_member call, so
\* has_completed_onboarding stays true for them.
C28_OnboardingStable ==
    [][ last'.op \in {"join_community", "leave_community", "remove_member"} =>
            \A u \in Users :
                has_completed_onboarding(user_topics, u) =>
                    has_completed_onboarding(user_topics', u)
      ]_vars

\* the users whose membership of a community has the role 'owner'
Owners(community_id) ==
    { u \in Users : community_members[community_id][u] = "owner" }

Personal == listing.op \in {"browse_communities", "get_recommended_communities"}

\* the communities that list a topic of the user
Sharing(user_id) ==
    { c \in 1..Len(communities) :
        Range(communities[c].tags) \cap user_topics[user_id] # {} }

\* C13: browse_communities and get_recommended_communities return the trending
\* fallback exactly when no community has a positive score for the caller's
\* topics; otherwise every community returned lists a topic of the caller.
C13_FallbackIffNoMatch ==
    (Personal /\ listing.status = 200) =>
        /\ listing.mode = "fallback" <=> Sharing(listing.user) = {}
        /\ listing.mode = "fallback" =>
              listing.rows = TrendingRows(communities, community_members,
                                 updated_at, engine, listing.limit, listing.skip)
        /\ listing.mode # "fallback" =>
              \A i \in DOMAIN listing.rows : listing.rows[i] \in Sharing(listing.user)

\* a relevance listing that leaves out a community of score 0
C13_Witness ==
    /\ Personal /\ listing.status = 200
    /\ listing.mode = "matches"
    /\ listing.rows # <<>>
    /\ Sharing(listing.user) # 1..Len(communities)

Min(a, b) == IF a < b THEN a ELSE b
Max(a, b) == IF a > b THEN a ELSE b

\* C25: in relevance mode with n matching communities, browse_communities(skip,
\* limit) returns min(limit, max(0, n - skip)) communities and
\* get_recommended_communities(limit) returns min(limit, n), all of them
\* distinct and matching.
C25_PageSize ==
    (Personal /\ listing.status = 200 /\ listing.mode = "matches") =>
        LET n == Cardinality(Sharing(listing.user))
        IN /\ listing.op = "browse_communities" =>
                Len(listing.rows) = Min(listing.limit, Max(0, n - listing.skip))
           /\ listing.op = "get_recommended_communities" =>
                Len(listing.rows) = Min(listing.limit, n)
           /\ \A i, j \in DOMAIN listing.rows :
                i # j => listing.rows[i] # listing.rows[j]
           /\ Range(listing.rows) \subseteq Sharing(listing.user)

\* a page of one of two matches, from the second place on
C25_Witness ==
    /\ listing.op = "browse_communities" /\ listing.status = 200
    /\ listing.mode = "matches"
    /\ Cardinality(Sharing(listing.user)) > Len(listing.rows)
    /\ listing.skip > 0
    /\ Len(listing.rows) > 0

\* C27: paging through the relevance listing with skip = 0, k, 2k, ... until an
\* empty page returns every matching community exactly once.
C27_PagingComplete ==
    ( /\ paging.on /\ paging.done
      /\ listing.status = 200 /\ listing.mode = "matches" ) =>
        /\ Range(paging.seen) = Sharing(paging.user)
        /\ \A c \in Sharing(paging.user) : Count(paging.seen, c) = 1

\* C14: for an onboarded user without a matching community and limit <= 50,
\* browse_communities(skip, limit) returns what get_trending_communities(limit,
\* skip) returns: the communities by member count descending, then updated_at
\* descending, from offset skip, limit of them, whoever asks.
C14_FallbackIsTrending ==
    ( /\ listing.op = "browse_communities" /\ listing.status = 200
      /\ Sharing(listing.user) = {}
      /\ listing.limit <= TrendingMaxLimit ) =>
        /\ listing.rows = TrendingRows(communities, community_members,
                              updated_at, engine, listing.limit, listing.skip)
        /\ Len(listing.rows) =
              IF Len(communities) - listing.skip >= listing.limit
              THEN listing.limit
              ELSE IF Len(communities) > listing.skip
                   THEN Len(communities) - listing.skip ELSE 0
        /\ \A i, j \in DOMAIN listing.rows :
              i < j =>
                LET a == listing.rows[i]
                    b == listing.rows[j]
                IN /\ a # b
                   /\ member_count(community_members, a)
                          >= member_count(community_members, b)
                   /\ member_count(community_members, a)
                          = member_count(community_members, b)
                        => updated_at[a] >= updated_at[b]

\* the fallback lists the older community first, because it has more members
C14_Witness ==
    /\ listing.op = "browse_communities" /\ listing.status = 200
    /\ Sharing(listing.user) = {}
    /\ Len(listing.rows) = 2
    /\ member_count(community_members, listing.rows[1])
            > member_count(community_members, listing.rows[2])
    /\ updated_at[listing.rows[1]] < updated_at[listing.rows[2]]

\* C15: called by a user with fewer than 3 topics, browse_communities and
\* get_recommended_communities report an error and return no community;
\* called by a user with 3 or more topics they never report that error.
C15_OnboardingError ==
    Personal =>
        /\ Cardinality(user_topics[listing.user]) < MinTopics =>
              /\ listing.status # 200
              /\ listing.rows = <<>>
              /\ listing.mode = "none"
        /\ Cardinality(user_topics[listing.user]) >= MinTopics =>
              listing.status # 400

\* the caller has joined a community, has its two topics and is turned away
C15_Witness ==
    /\ Personal /\ listing.status = 400
    /\ Cardinality(user_topics[listing.user]) = 2
    /\ Len(communities) > 0

(***************************************************************************)
(* Properties of onboarding                                                *)
(***************************************************************************)
Replaced == Succeeded("complete_onboarding") \/ Succeeded("update_topics")

\* C16: after a successful complete_onboarding or update_topics with topics S
\* the user's preferences are exactly S, each topic once: every earlier
\* preference, those added by joining communities included, is cleared.
C16_FullReplace ==
    Replaced =>
        /\ user_topics[last.user] = Range(last.selected_topics)
        /\ Cardinality(user_topics[last.user]) = Len(last.selected_topics)

\* the call cleared a topic that a joined community had added
C16_Witness ==
    /\ Replaced
    /\ user_topics[last.user] = Range(last.selected_topics)
    /\ (last.before \cap UsedTopics(last.user)) \ user_topics[last.user] # {}

(***************************************************************************)
(* Properties of the membership handlers                                   *)
(***************************************************************************)
\* the role a user had in a community before the step
RoleBefore(community_id, user_id) ==
    get_user_community_role(community_members, community_id, user_id)

Did(op) == last'.op = op /\ last'.status = 200

MembershipOps ==
    {"join_community", "leave_community", "remove_member", "update_member_role"}

\* C18: a membership call that fails changes neither the memberships nor any
\* user's topic preferences, and a membership call fails when the community
\* does not exist, when a member joins again, when a non-member leaves, when
\* the caller of remove_member or update_member_role has no role that allows
\* it, or when their target is not a member.
C18_FailuresChangeNothing ==
    [][ /\ (last'.op \in MembershipOps /\ last'.status # 200) =>
              /\ community_members' = community_members
              /\ user_topics' = user_topics
        /\ (last'.op \in MembershipOps /\ last'.status = 200) =>
              CommunityExists(communities, last'.community)
        /\ Did("join_community") =>
              RoleBefore(last'.community, last'.user) = NoRole
        /\ Did("leave_community") =>
              RoleBefore(last'.community, last'.user) # NoRole
        /\ Did("remove_member") =>
              /\ RoleBefore(last'.community, last'.user) \in {"owner", "moderator"}
              /\ RoleBefore(last'.community, last'.target) # NoRole
        /\ Did("update_member_role") =>
              /\ RoleBefore(last'.community, last'.user) = "owner"
              /\ RoleBefore(last'.community, last'.target) # NoRole
      ]_vars

\* a join was refused with "Already a member" while somebody besides the
\* owner is a member
C18_Witness ==
    /\ last.op = "join_community" /\ last.status = 400
    /\ \E u \in Users : community_members[1][u] \in {"member", "moderator"}

\* the post tags defined for the community of a post
DefinedFor(post_id) ==
    valid_tag_ids(community_post_tags, posts[post_id].community_id)

\* C19: every tag attached to a post is a post tag currently defined for the
\* post's community; create_post and edit_post that name another tag id are
\* refused and insert nothing.
C19_TagsDefined ==
    \A l \in post_post_tags :
        PostStored(posts, l[1]) => l[2] \in DefinedFor(l[1])

\* the links a successful create_post or edit_post leaves for its post are
\* to tags defined for the community
C19_PostHandlersCheck ==
    (last.op \in {"create_post", "edit_post"} /\ last.status = 200) =>
        \A l \in post_post_tags :
            l[1] = last.target => l[2] \in DefinedFor(l[1])

\* the names of the tags attached to a post (get_post_tags)
TagNamesOf(post_id) ==
    { community_post_tags[l[2]].name :
        l \in { k \in post_post_tags :
                    /\ k[1] = post_id
                    /\ k[2] \in 1..Len(community_post_tags)
                    /\ community_post_tags[k[2]].stored } }

\* the posts of other users whose tags share a name with the user's topics
Intersecting(user_id) ==
    { p \in OtherPosts(posts, user_id) :
        TagNamesOf(p) \cap user_topics[user_id] # {} }

\* C20: the home feed of a user holds none of their posts and at most 20;
\* when a post of another user has a tag among the user's topics, every
\* post of the feed is such a post; otherwise the feed is the other users'
\* posts by like_count descending, then created_at descending.
C20_HomeFeed ==
    feed.called =>
        /\ \A i \in 1..Len(feed.rows) : posts[feed.rows[i]].user_id # feed.user
        /\ Len(feed.rows) <= HomeLimit
        /\ IF Intersecting(feed.user) # {}
           THEN Range(feed.rows) \subseteq Intersecting(feed.user)
           ELSE \E o \in FeedOrders(posts, posts_like_count,
                                    OtherPosts(posts, feed.user)) :
                    feed.rows = Slice(o, 0, HomeLimit)

====
